---------------------------- MODULE Spec2Model ----------------------------
(***************************************************************************)
(* Biblio-manager: catalogue (GestionLivre), membres (GestionUtilisateur), *)
(* emprunts (GestionEmprunt) et reservations (GestionReservation).         *)
(*                                                                         *)
(* Un pas du modele est un appel complet d'une methode de service: le      *)
(* programme est mono-processus et chaque commande de la console s'execute *)
(* jusqu'au bout avant la suivante.  datetime.now() est lu une fois par    *)
(* pas (variable now); le temps est compte en ticks, TicksParJour ticks    *)
(* faisant un jour, de sorte que timedelta.days est une division entiere.  *)
(***************************************************************************)
EXTENDS Integers, Sequences, FiniteSets, TLC

VARIABLES
    livres,          \* GestionLivre._livres : isbn -> Livre
    utilisateurs,    \* GestionUtilisateur._utilisateurs : matricule -> User
    emprunts,        \* GestionEmprunt.__emprunts (dict ordonne; id = rang)
    suspensions,     \* GestionEmprunt.__suspensions : matricule -> fin
    reservations,    \* GestionReservation._reservations (id = rang)
    files,           \* GestionReservation._files : isbn -> liste d'ids
    emprunt_cable,   \* GestionReservation._gestion_emprunt est renseigne
    now,             \* datetime.now()
    disque,          \* le contenu des quatre fichiers JSON de data/
    last             \* dernier appel : operation, arguments, resultat

vars == <<livres, utilisateurs, emprunts, suspensions, reservations, files,
          emprunt_cable, now, disque, last>>

---------------------------------------------------------------------------
(* Les identifiants du modele *)

Isbns == {"i1"}
Codes == {"00001", "00002"}
Matricules == {"U1", "U2"}

\* code_barre = None (emprunter sans code-barres)
SansCode == "None"

---------------------------------------------------------------------------
(* Constantes du programme *)

TicksParJour == 2
DUREE_PAR_DEFAUT == 14
MAX_RENOUVELLEMENTS == 2
FACTEUR_SUSPENSION == 3
JOURS_RENOUVELLEMENT == 7

\* TypeUtilisateur.limite_emprunt
LimiteEmprunt(t) ==
    CASE t = "ETUDIANT" -> 3
      [] t = "PROFESSEUR" -> 10
      [] t = "EXTERNE" -> 5

\* timedelta(days = j)
Jours(j) == j * TicksParJour

\* (a - b).days : jours entiers, arrondi vers le bas
NbJours(a, b) == (a - b) \div TicksParJour

---------------------------------------------------------------------------
(* Livre et Exemplaire *)

\* Livre.exemplaires_disponibles
ExemplairesDisponibles(exs) ==
    Cardinality({k \in 1..Len(exs) : exs[k].statut = "disponible"})

\* Livre.mettre_a_jour_statut : le statut recalcule a partir des exemplaires
StatutCalcule(exs) ==
    IF Len(exs) = 0 THEN "indisponible"
    ELSE IF ExemplairesDisponibles(exs) > 0 THEN "disponible"
    ELSE "emprunte"

\* Livre.est_disponible
EstDisponible(l) == ExemplairesDisponibles(l.exemplaires) > 0

\* GestionLivre.get_livre(isbn) is not None
LivreExiste(i) == i \in DOMAIN livres

\* code_barre.strip().lower() : seul le code "A0002" a une majuscule
Minuscules(cb) == IF cb = "A0002" THEN "a0002" ELSE cb

\* GestionLivre.code_barre_existe : recherche dans tout le catalogue, sur
\* les codes mis en minuscules
CodeBarreExiste(cb) ==
    \E i \in DOMAIN livres :
        \E k \in 1..Len(livres[i].exemplaires) :
            Minuscules(livres[i].exemplaires[k].code_barre) = Minuscules(cb)

\* le plus petit rang d'un ensemble de rangs, 0 s'il est vide
PremierRang(K) ==
    IF K = {} THEN 0 ELSE CHOOSE k \in K : \A j \in K : k <= j

\* variante fautive : le code-barres est ignore, le premier exemplaire
\* disponible est pris
TrouverExemplaireSansCode(exs, cb) ==
    PremierRang({k \in 1..Len(exs) : exs[k].statut = "disponible"})

\* GestionEmprunt.__trouver_exemplaire : rang de l'exemplaire, 0 pour None
TrouverExemplaire(exs, cb) ==
    IF cb # SansCode
    THEN PremierRang({k \in 1..Len(exs) : exs[k].code_barre = cb})
    ELSE PremierRang({k \in 1..Len(exs) : exs[k].statut = "disponible"})

---------------------------------------------------------------------------
(* User *)

\* variante fautive : peut_emprunter compare avec <= au lieu de <
PeutEmprunterLarge(u) ==
    u.statut = "actif" /\ Len(u.livres_empruntes) <= u.limite

\* variante fautive : peut_emprunter ne regarde pas le statut du membre
PeutEmprunterSansStatut(u) == Len(u.livres_empruntes) < u.limite

\* User.peut_emprunter
PeutEmprunter(u) ==
    u.statut = "actif" /\ Len(u.livres_empruntes) < u.limite

\* User.enregistrer_emprunt ; de l'historique, ou l'on ne fait qu'ajouter,
\* le modele garde la longueur
EnregistrerEmprunt(u, i, cb) ==
    [u EXCEPT !.livres_empruntes =
                 Append(@, [isbn |-> i, id_exemplaire |-> cb]),
              !.historique = @ + 1]

\* User.enregistrer_retour : retire toutes les entrees (isbn, code-barres)
EnregistrerRetour(u, i, cb) ==
    [u EXCEPT !.livres_empruntes =
                 SelectSeq(@, LAMBDA e : ~(e.isbn = i /\ e.id_exemplaire = cb)),
              !.historique = @ + 1]

---------------------------------------------------------------------------
(* Suspensions *)

\* une table privee d'une cle
SansCle(f, k) == [x \in DOMAIN f \ {k} |-> f[x]]

\* une table avec f[k] = v
AvecCle(f, k, v) == [x \in DOMAIN f \cup {k} |-> IF x = k THEN v ELSE f[x]]

\* GestionEmprunt.__nettoyer_suspensions
NettoyerSuspensions(s, t) == [m \in {x \in DOMAIN s : s[x] > t} |-> s[m]]

\* variante fautive : encore suspendu a l'instant meme de l'expiration
IsSuspendedJusquA(m) == m \in DOMAIN suspensions /\ now <= suspensions[m]

\* GestionEmprunt.__is_suspended : la valeur rendue (comme booleen)
IsSuspended(m) == m \in DOMAIN suspensions /\ now < suspensions[m]

\* variante fautive : la verification retire l'entree sans lire sa date
SuspensionsApresVerificationSansDate(m) ==
    IF m \in DOMAIN suspensions
    THEN NettoyerSuspensions(SansCle(suspensions, m), now)
    ELSE suspensions

\* GestionEmprunt.__is_suspended : la table apres l'appel
SuspensionsApresVerification(m) ==
    IF m \in DOMAIN suspensions /\ ~(now < suspensions[m])
    THEN NettoyerSuspensions(SansCle(suspensions, m), now)
    ELSE suspensions

---------------------------------------------------------------------------
(* Emprunt *)

\* variante fautive : la date de retour n'est jamais lue
EstRetourneJamais(e) == FALSE

\* Emprunt.date_retour is not None
EstRetourne(e) == Len(e.date_retour) > 0

\* Emprunt.statut
StatutEmprunt(e, t) ==
    IF EstRetourne(e)
    THEN IF e.date_retour[1] > e.date_echeance THEN "en_retard" ELSE "retourne"
    ELSE IF t > e.date_echeance THEN "en_retard" ELSE "emprunte"

\* Emprunt.est_en_retard
EstEnRetard(e, t) == ~EstRetourne(e) /\ t > e.date_echeance

\* variante fautive : peut_renouveler ne lit pas la date de retour
PeutRenouvelerRendu(e, t) ==
    IF t > e.date_echeance THEN FALSE
    ELSE e.renouvellements < MAX_RENOUVELLEMENTS

\* variante fautive : peut_renouveler compare avec <= au lieu de <
PeutRenouvelerLarge(e, t) ==
    IF EstRetourne(e) THEN FALSE
    ELSE IF EstEnRetard(e, t) THEN FALSE
    ELSE e.renouvellements <= MAX_RENOUVELLEMENTS

\* Emprunt.peut_renouveler
PeutRenouveler(e, t) ==
    IF EstRetourne(e) THEN FALSE
    ELSE IF EstEnRetard(e, t) THEN FALSE
    ELSE e.renouvellements < MAX_RENOUVELLEMENTS

---------------------------------------------------------------------------
(* Persistance : ce que chaque service ecrit dans son fichier, et ce que  *)
(* son chargement en relit                                                 *)

\* isoformat(timespec = 'seconds') d'un instant compte en unites dont g
\* font une seconde : les fractions de seconde sont perdues (g = 1 quand
\* l'unite de temps est un nombre entier de secondes)
IsoSecondes(t, g) == t - (t % g)

\* Exemplaire.data_format : le code-barres et la valeur du statut
DataFormatExemplaire(ex) ==
    [code_barre |-> ex.code_barre, statut |-> ex.statut]

\* Livre.data_format : les exemplaires ; ni le statut du livre ni son
\* compteur d'emprunts ne sont ecrits
DataFormatLivre(l) ==
    [exemplaires |-> [k \in 1..Len(l.exemplaires) |->
                         DataFormatExemplaire(l.exemplaires[k])]]

\* GestionLivre.sauvegarder : le document ecrit
SauveLivres(lv) == [i \in DOMAIN lv |-> DataFormatLivre(lv[i])]

\* GestionLivre.__charger : chaque Livre est reconstruit puis recoit ses
\* exemplaires un a un, ce qui recalcule son statut ; le compteur repart
\* de zero
ChargeLivres(doc) ==
    [i \in DOMAIN doc |->
        [exemplaires |-> doc[i].exemplaires,
         statut |-> StatutCalcule(doc[i].exemplaires),
         compteur |-> 0]]

\* User.data_format
DataFormatUser(u) ==
    [type |-> u.type, statut |-> u.statut,
     livres_empruntes |-> u.livres_empruntes, historique |-> u.historique]

\* GestionUtilisateur.sauvegarder : le document ecrit
SauveUtilisateurs(us) == [m \in DOMAIN us |-> DataFormatUser(us[m])]

\* GestionUtilisateur.__charger : User(type) puis User.restaurer_etat
ChargeUtilisateurs(doc) ==
    [m \in DOMAIN doc |->
        [type |-> doc[m].type, limite |-> LimiteEmprunt(doc[m].type),
         statut |-> doc[m].statut,
         livres_empruntes |-> doc[m].livres_empruntes,
         historique |-> doc[m].historique]]

\* Emprunt.data_format a l'instant t : les dates a la seconde, et le statut
\* calcule a cet instant
DataFormatEmprunt(e, t, g) ==
    [matricule_user |-> e.matricule_user, isbn |-> e.isbn,
     code_barre |-> e.code_barre,
     date_emprunt |-> IsoSecondes(e.date_emprunt, g),
     date_echeance |-> IsoSecondes(e.date_echeance, g),
     date_retour |-> IF EstRetourne(e)
                     THEN <<IsoSecondes(e.date_retour[1], g)>> ELSE <<>>,
     statut |-> StatutEmprunt(e, t),
     renouvellements |-> e.renouvellements]

\* Emprunt.from_dict : le statut ecrit n'est pas relu
FromDictEmprunt(d) ==
    [matricule_user |-> d.matricule_user, isbn |-> d.isbn,
     code_barre |-> d.code_barre, date_emprunt |-> d.date_emprunt,
     date_echeance |-> d.date_echeance, date_retour |-> d.date_retour,
     renouvellements |-> d.renouvellements]

\* GestionEmprunt.__sauvegarder : le document ecrit a l'instant t, les
\* suspensions avec leur date entiere (isoformat sans timespec)
SauveEmprunts(es, sus, t) ==
    [emprunts |-> [k \in 1..Len(es) |-> DataFormatEmprunt(es[k], t, 1)],
     suspensions |-> sus]

\* GestionEmprunt.__charger a l'instant t : les emprunts, puis les
\* suspensions nettoyees
ChargeEmprunts(doc) ==
    [k \in 1..Len(doc.emprunts) |-> FromDictEmprunt(doc.emprunts[k])]

ChargeSuspensions(doc, t) == NettoyerSuspensions(doc.suspensions, t)

\* Reservation.data_format
DataFormatReservation(r) ==
    [matricule_user |-> r.matricule_user, isbn |-> r.isbn,
     date_reservation |-> r.date_reservation, statut |-> r.statut]

\* Reservation.from_dict : un statut inconnu devient en_attente
FromDictReservation(d) ==
    [matricule_user |-> d.matricule_user, isbn |-> d.isbn,
     date_reservation |-> d.date_reservation,
     statut |-> IF d.statut \in {"en_attente", "notifie", "confirme",
                                 "annule"}
                THEN d.statut ELSE "en_attente"]

\* GestionReservation.sauvegarder : le document ecrit
SauveReservations(rs, f) ==
    [reservations |-> [k \in 1..Len(rs) |-> DataFormatReservation(rs[k])],
     files |-> f]

\* GestionReservation.__charger
ChargeReservations(doc) ==
    [k \in 1..Len(doc.reservations) |->
        FromDictReservation(doc.reservations[k])]

ChargeFiles(doc) == doc.files

\* les quatre fichiers quand tout vient d'etre ecrit
Fichiers(lv, us, es, sus, rs, f, t) ==
    [livres |-> SauveLivres(lv), utilisateurs |-> SauveUtilisateurs(us),
     emprunts |-> SauveEmprunts(es, sus, t),
     reservations |-> SauveReservations(rs, f)]

\* la fin d'un appel qui a ecrit les fichiers de S, chacun avec l'etat en
\* memoire a la fin de l'appel, et laisse les autres tels quels
Sauvegarde(S) ==
    disque' =
      [livres |-> IF "livres" \in S THEN SauveLivres(livres')
                  ELSE disque.livres,
       utilisateurs |-> IF "utilisateurs" \in S
                        THEN SauveUtilisateurs(utilisateurs')
                        ELSE disque.utilisateurs,
       emprunts |-> IF "emprunts" \in S
                    THEN SauveEmprunts(emprunts', suspensions', now')
                    ELSE disque.emprunts,
       reservations |-> IF "reservations" \in S
                        THEN SauveReservations(reservations', files')
                        ELSE disque.reservations]

\* __is_suspended ecrit le fichier des emprunts quand il retire l'entree
\* expiree de m
VerificationEcrit(m) ==
    m \in DOMAIN suspensions /\ ~(now < suspensions[m])

---------------------------------------------------------------------------
(* Le dernier appel *)

Appel(op, m, i, cb, id, res) ==
    [op |-> op, m |-> m, i |-> i, cb |-> cb, id |-> id, res |-> res]

---------------------------------------------------------------------------
(* GestionEmprunt.emprunter *)

\* variante fautive : emprunter trouve l'exemplaire sans lire son statut
EmprunterErreurSansStatut(m, i, cb) ==
    IF m \notin DOMAIN utilisateurs THEN "UtilisateurIntrouvable"
    ELSE IF IsSuspended(m) THEN "UtilisateurSuspendu"
    ELSE IF ~PeutEmprunter(utilisateurs[m]) THEN "LimiteAtteinte"
    ELSE IF ~LivreExiste(i) THEN "LivreIntrouvable"
    ELSE IF TrouverExemplaire(livres[i].exemplaires, cb) = 0
    THEN "ExemplaireIndisponible"
    ELSE "ok"

\* variante fautive : emprunter cherche le livre avant de verifier le membre
EmprunterErreurLivreDabord(m, i, cb) ==
    IF ~LivreExiste(i) THEN "LivreIntrouvable"
    ELSE IF m \notin DOMAIN utilisateurs THEN "UtilisateurIntrouvable"
    ELSE IF IsSuspended(m) THEN "UtilisateurSuspendu"
    ELSE IF ~PeutEmprunter(utilisateurs[m]) THEN "LimiteAtteinte"
    ELSE LET k == TrouverExemplaire(livres[i].exemplaires, cb) IN
         IF k = 0 \/ livres[i].exemplaires[k].statut # "disponible"
         THEN "ExemplaireIndisponible"
         ELSE "ok"

\* la premiere verification qui echoue, "ok" si aucune
EmprunterErreur(m, i, cb) ==
    IF m \notin DOMAIN utilisateurs THEN "UtilisateurIntrouvable"
    ELSE IF IsSuspended(m) THEN "UtilisateurSuspendu"
    ELSE IF ~PeutEmprunter(utilisateurs[m]) THEN "LimiteAtteinte"
    ELSE IF ~LivreExiste(i) THEN "LivreIntrouvable"
    ELSE LET k == TrouverExemplaire(livres[i].exemplaires, cb) IN
         IF k = 0 \/ livres[i].exemplaires[k].statut # "disponible"
         THEN "ExemplaireIndisponible"
         ELSE "ok"

\* variante fautive : emprunter sans Livre.mettre_a_jour_statut
LivreApresEmpruntSansStatut(l, k) ==
    [exemplaires |-> [l.exemplaires EXCEPT ![k].statut = "emprunte"],
     statut |-> l.statut,
     compteur |-> l.compteur + 1]

\* le livre apres l'emprunt de son exemplaire de rang k
LivreApresEmprunt(l, k) ==
    LET exs == [l.exemplaires EXCEPT ![k].statut = "emprunte"] IN
    [exemplaires |-> exs,
     statut |-> StatutCalcule(exs),
     compteur |-> l.compteur + 1]

\* l'effet d'un appel emprunter(m, i, cb, duree) sur les tables
EmprunterEffet(m, i, cb, duree) ==
    LET err == EmprunterErreur(m, i, cb) IN
    IF err = "ok"
    THEN LET k == TrouverExemplaire(livres[i].exemplaires, cb)
             code == livres[i].exemplaires[k].code_barre
         IN /\ livres' = [livres EXCEPT ![i] = LivreApresEmprunt(@, k)]
            /\ utilisateurs' =
                 [utilisateurs EXCEPT ![m] = EnregistrerEmprunt(@, i, code)]
            /\ emprunts' = Append(emprunts,
                 [matricule_user |-> m, isbn |-> i, code_barre |-> code,
                  date_emprunt |-> now, date_echeance |-> now + Jours(duree),
                  date_retour |-> <<>>, renouvellements |-> 0])
            /\ suspensions' =
                 NettoyerSuspensions(SuspensionsApresVerification(m), now)
    ELSE /\ suspensions' =
              IF err = "UtilisateurIntrouvable" THEN suspensions
              ELSE SuspensionsApresVerification(m)
         /\ UNCHANGED <<livres, utilisateurs, emprunts>>

\* les fichiers qu'ecrit un appel emprunter(m, i, cb) : celui des emprunts,
\* a la fin d'un emprunt reussi ou par __is_suspended
EcrituresEmprunter(m, i, cb) ==
    IF \/ EmprunterErreur(m, i, cb) = "ok"
       \/ m \in DOMAIN utilisateurs /\ VerificationEcrit(m)
    THEN {"emprunts"} ELSE {}

Emprunter(m, i, cb, duree) ==
    /\ EmprunterEffet(m, i, cb, duree)
    /\ last' = Appel("emprunter", m, i, cb, 0, EmprunterErreur(m, i, cb))
    /\ UNCHANGED <<reservations, files, emprunt_cable, now>>
    /\ Sauvegarde(EcrituresEmprunter(m, i, cb))

---------------------------------------------------------------------------
(* GestionReservation.traiter_file, sur un catalogue lv donne *)

\* variante fautive : traiter_file ne regarde pas la disponibilite
FileTraitableSansDisponibilite(lv, i) == i \in DOMAIN lv

\* le livre existe et a un exemplaire disponible
FileTraitable(lv, i) == i \in DOMAIN lv /\ EstDisponible(lv[i])

\* file_propre : les ids de la file dont la reservation est en attente
FilePropre(i) ==
    SelectSeq(files[i],
              LAMBDA rid : /\ rid \in 1..Len(reservations)
                           /\ reservations[rid].statut = "en_attente")

\* variante fautive : traiter_file notifie la derniere de la file
IdNotifieDernier(lv, i) ==
    IF FileTraitable(lv, i) /\ FilePropre(i) # <<>>
    THEN FilePropre(i)[Len(FilePropre(i))]
    ELSE 0

\* l'id notifie par traiter_file, 0 pour None
IdNotifie(lv, i) ==
    IF FileTraitable(lv, i) /\ FilePropre(i) # <<>> THEN FilePropre(i)[1]
    ELSE 0

\* traiter_file n'ecrit le fichier des reservations que s'il notifie
EcrituresTraitement(lv, i) ==
    IF IdNotifie(lv, i) # 0 THEN {"reservations"} ELSE {}

\* _files apres traiter_file
FilesApresTraitement(lv, i) ==
    IF FileTraitable(lv, i) THEN [files EXCEPT ![i] = FilePropre(i)]
    ELSE files

\* variante fautive : traiter_file ne notifie personne
ReservationsSansNotification(lv, i) == reservations

\* _reservations apres traiter_file : Reservation.notifier sur la tete
ReservationsApresTraitement(lv, i) ==
    IF IdNotifie(lv, i) # 0
    THEN [reservations EXCEPT ![IdNotifie(lv, i)].statut = "notifie"]
    ELSE reservations

TraiterFile(i) ==
    /\ files' = FilesApresTraitement(livres, i)
    /\ reservations' = ReservationsApresTraitement(livres, i)
    /\ last' = Appel("traiter_file", "", i, "", IdNotifie(livres, i), "ok")
    /\ UNCHANGED <<livres, utilisateurs, emprunts, suspensions,
                   emprunt_cable, now>>
    /\ Sauvegarde(EcrituresTraitement(livres, i))

---------------------------------------------------------------------------
(* GestionEmprunt.retourner *)

\* le livre apres le retour de l'exemplaire de code-barres cb
LivreApresRetour(l, cb) ==
    LET k == PremierRang({j \in 1..Len(l.exemplaires) :
                            l.exemplaires[j].code_barre = cb})
        exs == IF k = 0 THEN l.exemplaires
               ELSE [l.exemplaires EXCEPT ![k].statut = "disponible"]
    IN [l EXCEPT !.exemplaires = exs, !.statut = StatutCalcule(exs)]

\* variante fautive : le retour suspend aussi a l'echeance exacte
SuspensionsApresRetourDesEcheance(e, t) ==
    IF t >= e.date_echeance
    THEN [x \in DOMAIN suspensions \cup {e.matricule_user} |->
            IF x = e.matricule_user
            THEN t + 3 * TicksParJour
            ELSE suspensions[x]]
    ELSE suspensions

\* jours de retard comptes au retour : au moins 1
JoursRetardRetour(e, t) ==
    IF NbJours(t, e.date_echeance) <= 0 THEN 1
    ELSE NbJours(t, e.date_echeance)

\* variante fautive : pas de suspension quand le membre a ete supprime
SuspensionsApresRetourMembrePresent(e, t) ==
    IF t > e.date_echeance /\ e.matricule_user \in DOMAIN utilisateurs
    THEN AvecCle(suspensions, e.matricule_user,
                 t + Jours(JoursRetardRetour(e, t) * FACTEUR_SUSPENSION))
    ELSE suspensions

\* __suspensions apres le retour de e a l'instant t (avant la sauvegarde)
SuspensionsApresRetour(e, t) ==
    IF t > e.date_echeance
    THEN AvecCle(suspensions, e.matricule_user,
                 t + Jours(JoursRetardRetour(e, t) * FACTEUR_SUSPENSION))
    ELSE suspensions

Retourner(id) ==
    /\ IF id \notin 1..Len(emprunts)
       THEN /\ last' = Appel("retourner", "", "", "", id, "EmpruntNonTrouve")
            /\ UNCHANGED <<livres, utilisateurs, emprunts, suspensions,
                           reservations, files>>
       ELSE IF EstRetourne(emprunts[id])
       THEN /\ last' = Appel("retourner", "", "", "", id, "ok")
            /\ UNCHANGED <<livres, utilisateurs, emprunts, suspensions,
                           reservations, files>>
       ELSE LET e == emprunts[id]
                lv == IF LivreExiste(e.isbn)
                      THEN [livres EXCEPT ![e.isbn] =
                              LivreApresRetour(@, e.code_barre)]
                      ELSE livres
            IN /\ emprunts' = [emprunts EXCEPT ![id].date_retour = <<now>>]
               /\ livres' = lv
               /\ utilisateurs' =
                    IF e.matricule_user \in DOMAIN utilisateurs
                    THEN [utilisateurs EXCEPT ![e.matricule_user] =
                            EnregistrerRetour(@, e.isbn, e.code_barre)]
                    ELSE utilisateurs
               /\ suspensions' =
                    NettoyerSuspensions(SuspensionsApresRetour(e, now), now)
               /\ files' = FilesApresTraitement(lv, e.isbn)
               /\ reservations' = ReservationsApresTraitement(lv, e.isbn)
               /\ last' = Appel("retourner", e.matricule_user, e.isbn,
                                e.code_barre, id, "ok")
    /\ UNCHANGED <<emprunt_cable, now>>
    /\ Sauvegarde(IF id \notin 1..Len(emprunts) THEN {}
                  ELSE IF EstRetourne(emprunts[id]) THEN {}
                  ELSE {"emprunts"}
                         \cup EcrituresTraitement(livres', emprunts[id].isbn))

---------------------------------------------------------------------------
(* GestionEmprunt.renouveler *)

\* variante fautive : le renouvellement ajoute toujours la duree par defaut
EmpruntRenouveleParDefaut(e, jours) ==
    [e EXCEPT !.date_echeance = @ + Jours(JOURS_RENOUVELLEMENT),
              !.renouvellements = @ + 1]

\* Emprunt.renouveler : l'emprunt apres un renouvellement accepte
EmpruntRenouvele(e, jours) ==
    [e EXCEPT !.date_echeance = @ + Jours(jours),
              !.renouvellements = @ + 1]

Renouveler(id, jours) ==
    /\ IF id \notin 1..Len(emprunts)
       THEN /\ last' = Appel("renouveler", "", "", "", id, "EmpruntNonTrouve")
            /\ UNCHANGED <<emprunts, suspensions>>
       ELSE IF PeutRenouveler(emprunts[id], now)
       THEN /\ emprunts' =
                 [emprunts EXCEPT ![id] = EmpruntRenouvele(@, jours)]
            /\ suspensions' = NettoyerSuspensions(suspensions, now)
            /\ last' = Appel("renouveler", "", "", "", id, "True")
       ELSE /\ last' = Appel("renouveler", "", "", "", id, "False")
            /\ UNCHANGED <<emprunts, suspensions>>
    /\ UNCHANGED <<livres, utilisateurs, reservations, files, emprunt_cable,
                   now>>
    /\ Sauvegarde(IF last'.res = "True" THEN {"emprunts"} ELSE {})

---------------------------------------------------------------------------
(* GestionEmprunt.appliquer_penalites *)

\* variante fautive : les penalites sans la condition jours_retard > 0
RECURSIVE SuspensionsApresPenalitesSansSeuil(_)
SuspensionsApresPenalitesSansSeuil(n) ==
    IF n = 0 THEN suspensions
    ELSE LET s == SuspensionsApresPenalitesSansSeuil(n - 1)
             e == emprunts[n]
         IN IF ~EstRetourne(e) /\ e.date_echeance < now
            THEN AvecCle(s, e.matricule_user,
                         now + Jours(NbJours(now, e.date_echeance)
                                     * FACTEUR_SUSPENSION))
            ELSE s

\* la table apres le parcours des n premiers emprunts
RECURSIVE SuspensionsApresPenalites(_)
SuspensionsApresPenalites(n) ==
    IF n = 0 THEN suspensions
    ELSE LET s == SuspensionsApresPenalites(n - 1)
             e == emprunts[n]
         IN IF /\ ~EstRetourne(e)
               /\ e.date_echeance < now
               /\ NbJours(now, e.date_echeance) > 0
            THEN AvecCle(s, e.matricule_user,
                         now + Jours(NbJours(now, e.date_echeance)
                                     * FACTEUR_SUSPENSION))
            ELSE s

AppliquerPenalites ==
    /\ suspensions' =
         NettoyerSuspensions(SuspensionsApresPenalites(Len(emprunts)), now)
    /\ last' = Appel("appliquer_penalites", "", "", "", 0, "ok")
    /\ UNCHANGED <<livres, utilisateurs, emprunts, reservations, files,
                   emprunt_cable, now>>
    /\ Sauvegarde({"emprunts"})

\* GestionEmprunt.lister_suspensions : nettoie la table puis en rend une
\* copie ; le dictionnaire rendu est la table apres l'appel
ListerSuspensions ==
    /\ suspensions' = NettoyerSuspensions(suspensions, now)
    /\ last' = Appel("lister_suspensions", "", "", "", 0, "ok")
    /\ UNCHANGED <<livres, utilisateurs, emprunts, reservations, files,
                   emprunt_cable, now, disque>>

---------------------------------------------------------------------------
(* GestionReservation *)

\* variante fautive : seules les reservations en attente comptent
DejaReserveEnAttente(m, i) ==
    \E rid \in 1..Len(reservations) :
        /\ reservations[rid].matricule_user = m
        /\ reservations[rid].isbn = i
        /\ reservations[rid].statut = "en_attente"

\* la verification de double reservation de reserver
DejaReserve(m, i) ==
    \E rid \in 1..Len(reservations) :
        /\ reservations[rid].matricule_user = m
        /\ reservations[rid].isbn = i
        /\ reservations[rid].statut \in {"en_attente", "notifie"}

\* variante fautive : reserver ne regarde pas la disponibilite du livre
ReserverErreurSansDisponibilite(m, i) ==
    IF m \notin DOMAIN utilisateurs THEN "UtilisateurIntrouvable"
    ELSE IF ~LivreExiste(i) THEN "LivreIntrouvable"
    ELSE IF DejaReserve(m, i) THEN "DejaReserve"
    ELSE "ok"

\* la premiere verification de reserver qui echoue, "ok" si aucune
ReserverErreur(m, i) ==
    IF m \notin DOMAIN utilisateurs THEN "UtilisateurIntrouvable"
    ELSE IF ~LivreExiste(i) THEN "LivreIntrouvable"
    ELSE IF EstDisponible(livres[i]) THEN "LivreDejaDisponible"
    ELSE IF DejaReserve(m, i) THEN "DejaReserve"
    ELSE "ok"

Reserver(m, i) ==
    /\ IF ReserverErreur(m, i) = "ok"
       THEN /\ reservations' = Append(reservations,
                 [matricule_user |-> m, isbn |-> i, date_reservation |-> now,
                  statut |-> "en_attente"])
            /\ files' = [files EXCEPT ![i] =
                           Append(@, Len(reservations) + 1)]
            /\ last' = Appel("reserver", m, i, "", Len(reservations) + 1,
                             "ok")
       ELSE /\ last' = Appel("reserver", m, i, "", 0, ReserverErreur(m, i))
            /\ UNCHANGED <<reservations, files>>
    /\ UNCHANGED <<livres, utilisateurs, emprunts, suspensions,
                   emprunt_cable, now>>
    /\ Sauvegarde(IF ReserverErreur(m, i) = "ok" THEN {"reservations"}
                  ELSE {})

\* variante fautive : _retirer_de_file ne retire rien
RetirerDeFileSansEffet(f, i, rid) == f

\* GestionReservation._retirer_de_file
RetirerDeFile(f, i, rid) ==
    LET k == PremierRang({j \in 1..Len(f[i]) : f[i][j] = rid}) IN
    IF k = 0 THEN f
    ELSE [f EXCEPT ![i] = SubSeq(@, 1, k - 1) \o SubSeq(@, k + 1, Len(@))]

\* GestionReservation.lister_file_pour_isbn : les reservations de la file
\* de l'isbn qui existent et sont en attente, dans l'ordre de la file
ListerFilePourIsbn(i) ==
    SelectSeq(files[i],
              LAMBDA rid : /\ rid \in 1..Len(reservations)
                           /\ reservations[rid].statut = "en_attente")

\* variante fautive : Reservation.annuler ne change pas le statut
StatutApresAnnulerSansEffet(st) == st

\* Reservation.annuler : sans effet si deja annulee, sinon annule
StatutApresAnnuler(st) == IF st = "annule" THEN st ELSE "annule"

Annuler(rid) ==
    /\ IF rid \notin 1..Len(reservations)
       THEN /\ last' = Appel("annuler", "", "", "", rid, "False")
            /\ UNCHANGED <<reservations, files>>
       ELSE /\ reservations' = [reservations EXCEPT ![rid].statut =
                                   StatutApresAnnuler(@)]
            /\ files' = RetirerDeFile(files, reservations[rid].isbn, rid)
            /\ last' = Appel("annuler", reservations[rid].matricule_user,
                             reservations[rid].isbn, "", rid, "True")
    /\ UNCHANGED <<livres, utilisateurs, emprunts, suspensions,
                   emprunt_cable, now>>
    /\ Sauvegarde(IF rid \in 1..Len(reservations) THEN {"reservations"}
                  ELSE {})

\* variante fautive : une reservation confirmee reste confirmable
EstConfirmableEncore(r) == r.statut \in {"notifie", "confirme"}

\* Reservation.est_confirmable
EstConfirmable(r) == r.statut = "notifie"

\* variante fautive : confirmer poursuit meme si emprunter a leve
ConfirmationToujoursPoursuivie(ok) == TRUE

\* confirmer poursuit apres l'appel a emprunter : il n'y a pas de gestion
\* des emprunts, ou emprunter n'a leve aucune exception
ConfirmationPoursuivie(ok) == ~emprunt_cable \/ ok

\* variante fautive : confirmer appelle emprunter meme quand la gestion des
\* emprunts n'est pas renseignee
AvecGestionEmpruntToujours == TRUE

\* if self._gestion_emprunt
AvecGestionEmprunt == emprunt_cable

Confirmer(rid) ==
    /\ IF rid \notin 1..Len(reservations)
       THEN /\ last' = Appel("confirmer", "", "", "", rid, "False")
            /\ UNCHANGED <<livres, utilisateurs, emprunts, suspensions,
                           reservations, files>>
       ELSE IF ~EstConfirmable(reservations[rid])
       THEN /\ last' = Appel("confirmer", reservations[rid].matricule_user,
                             reservations[rid].isbn, "", rid, "False")
            /\ UNCHANGED <<livres, utilisateurs, emprunts, suspensions,
                           reservations, files>>
       ELSE LET r == reservations[rid]
                ok == EmprunterErreur(r.matricule_user, r.isbn, SansCode)
                        = "ok"
            IN /\ IF AvecGestionEmprunt
                  THEN EmprunterEffet(r.matricule_user, r.isbn, SansCode,
                                      DUREE_PAR_DEFAUT)
                  ELSE UNCHANGED <<livres, utilisateurs, emprunts,
                                   suspensions>>
               /\ IF ConfirmationPoursuivie(ok)
                  THEN /\ reservations' =
                            [reservations EXCEPT ![rid].statut = "confirme"]
                       /\ files' = RetirerDeFile(files, r.isbn, rid)
                       /\ last' = Appel("confirmer", r.matricule_user,
                                        r.isbn, "", rid, "True")
                  ELSE /\ last' = Appel("confirmer", r.matricule_user,
                                        r.isbn, "", rid, "False")
                       /\ UNCHANGED <<reservations, files>>
    /\ UNCHANGED <<emprunt_cable, now>>
    /\ Sauvegarde(IF rid \notin 1..Len(reservations) THEN {}
                  ELSE IF ~EstConfirmable(reservations[rid]) THEN {}
                  ELSE (IF AvecGestionEmprunt
                        THEN EcrituresEmprunter(
                                 reservations[rid].matricule_user,
                                 reservations[rid].isbn, SansCode)
                        ELSE {})
                       \cup (IF last'.res = "True" THEN {"reservations"}
                             ELSE {}))

---------------------------------------------------------------------------
(* GestionLivre *)

\* un Livre qui vient d'etre construit : aucun exemplaire
NouveauLivre == [exemplaires |-> <<>>, statut |-> "indisponible",
                 compteur |-> 0]

AjouterLivre(i) ==
    /\ IF LivreExiste(i)
       THEN /\ last' = Appel("ajouter_livre", "", i, "", 0, "IsbnExistant")
            /\ UNCHANGED livres
       ELSE /\ livres' = AvecCle(livres, i, NouveauLivre)
            /\ last' = Appel("ajouter_livre", "", i, "", 0, "ok")
    /\ UNCHANGED <<utilisateurs, emprunts, suspensions, reservations, files,
                   emprunt_cable, now>>
    /\ Sauvegarde(IF LivreExiste(i) THEN {} ELSE {"livres"})

SupprimerLivre(i) ==
    /\ IF LivreExiste(i)
       THEN /\ livres' = SansCle(livres, i)
            /\ last' = Appel("supprimer_livre", "", i, "", 0, "True")
       ELSE /\ last' = Appel("supprimer_livre", "", i, "", 0, "False")
            /\ UNCHANGED livres
    /\ UNCHANGED <<utilisateurs, emprunts, suspensions, reservations, files,
                   emprunt_cable, now, disque>>

\* Livre.ajouter_exemplaire
LivreAvecExemplaire(l, cb, st) ==
    LET exs == Append(l.exemplaires, [code_barre |-> cb, statut |-> st]) IN
    [l EXCEPT !.exemplaires = exs, !.statut = StatutCalcule(exs)]

\* variante fautive : le code-barres n'est cherche que dans le livre i
AjouterExemplaireParLivre(i, cb, st) ==
    /\ IF ~LivreExiste(i)
       THEN /\ last' = Appel("ajouter_exemplaire", "", i, cb, 0,
                             "LivreIntrouvable")
            /\ UNCHANGED <<livres, reservations, files>>
       ELSE IF \E k \in 1..Len(livres[i].exemplaires) :
                  Minuscules(livres[i].exemplaires[k].code_barre)
                      = Minuscules(cb)
       THEN /\ last' = Appel("ajouter_exemplaire", "", i, cb, 0,
                             "CodeBarreExistant")
            /\ UNCHANGED <<livres, reservations, files>>
       ELSE LET lv == [livres EXCEPT ![i] = LivreAvecExemplaire(@, cb, st)]
            IN /\ livres' = lv
               /\ files' = FilesApresTraitement(lv, i)
               /\ reservations' = ReservationsApresTraitement(lv, i)
               /\ last' = Appel("ajouter_exemplaire", "", i, cb, 0, "ok")
    /\ UNCHANGED <<utilisateurs, emprunts, suspensions, emprunt_cable, now>>
    /\ Sauvegarde(IF last'.res = "ok"
                  THEN {"livres"} \cup EcrituresTraitement(livres', i)
                  ELSE {})

AjouterExemplaire(i, cb, st) ==
    /\ IF ~LivreExiste(i)
       THEN /\ last' = Appel("ajouter_exemplaire", "", i, cb, 0,
                             "LivreIntrouvable")
            /\ UNCHANGED <<livres, reservations, files>>
       ELSE IF CodeBarreExiste(cb)
       THEN /\ last' = Appel("ajouter_exemplaire", "", i, cb, 0,
                             "CodeBarreExistant")
            /\ UNCHANGED <<livres, reservations, files>>
       ELSE LET lv == [livres EXCEPT ![i] = LivreAvecExemplaire(@, cb, st)]
            IN /\ livres' = lv
               /\ files' = FilesApresTraitement(lv, i)
               /\ reservations' = ReservationsApresTraitement(lv, i)
               /\ last' = Appel("ajouter_exemplaire", "", i, cb, 0, "ok")
    /\ UNCHANGED <<utilisateurs, emprunts, suspensions, emprunt_cable, now>>
    /\ Sauvegarde(IF last'.res = "ok"
                  THEN {"livres"} \cup EcrituresTraitement(livres', i)
                  ELSE {})

\* Livre.retirer_exemplaire
LivreSansExemplaire(l, cb) ==
    LET k == PremierRang({j \in 1..Len(l.exemplaires) :
                            l.exemplaires[j].code_barre = cb})
        exs == IF k = 0 THEN l.exemplaires
               ELSE SubSeq(l.exemplaires, 1, k - 1)
                    \o SubSeq(l.exemplaires, k + 1, Len(l.exemplaires))
    IN IF k = 0 THEN l
       ELSE [l EXCEPT !.exemplaires = exs, !.statut = StatutCalcule(exs)]

RetirerExemplaire(i, cb) ==
    /\ IF ~LivreExiste(i)
       THEN /\ last' = Appel("retirer_exemplaire", "", i, cb, 0, "False")
            /\ UNCHANGED livres
       ELSE /\ livres' = [livres EXCEPT ![i] = LivreSansExemplaire(@, cb)]
            /\ last' = Appel("retirer_exemplaire", "", i, cb, 0,
                             IF LivreSansExemplaire(livres[i], cb) = livres[i]
                             THEN "False" ELSE "True")
    /\ UNCHANGED <<utilisateurs, emprunts, suspensions, reservations, files,
                   emprunt_cable, now, disque>>

---------------------------------------------------------------------------
(* GestionUtilisateur *)

\* desactiver_utilisateur / activer_utilisateur : User.definir_statut
DefinirStatut(m, st) ==
    /\ IF m \in DOMAIN utilisateurs
       THEN /\ utilisateurs' = [utilisateurs EXCEPT ![m].statut = st]
            /\ last' = Appel("definir_statut", m, "", st, 0, "True")
       ELSE /\ last' = Appel("definir_statut", m, "", st, 0, "False")
            /\ UNCHANGED utilisateurs
    /\ UNCHANGED <<livres, emprunts, suspensions, reservations, files,
                   emprunt_cable, now>>
    /\ Sauvegarde(IF m \in DOMAIN utilisateurs THEN {"utilisateurs"}
                  ELSE {})

SupprimerUtilisateur(m) ==
    /\ IF m \in DOMAIN utilisateurs
       THEN /\ utilisateurs' = SansCle(utilisateurs, m)
            /\ last' = Appel("supprimer_utilisateur", m, "", "", 0, "True")
       ELSE /\ last' = Appel("supprimer_utilisateur", m, "", "", 0, "False")
            /\ UNCHANGED utilisateurs
    /\ UNCHANGED <<livres, emprunts, suspensions, reservations, files,
                   emprunt_cable, now>>
    /\ Sauvegarde(IF m \in DOMAIN utilisateurs THEN {"utilisateurs"}
                  ELSE {})

---------------------------------------------------------------------------
(* L'horloge : d ticks passent entre deux appels *)

Attendre(d) ==
    /\ now' = now + d
    /\ last' = Appel("attendre", "", "", "", d, "ok")
    /\ UNCHANGED <<livres, utilisateurs, emprunts, suspensions, reservations,
                   files, emprunt_cable, disque>>

---------------------------------------------------------------------------
(* Le programme est quitte puis relance : chaque service est reconstruit  *)
(* et relit son fichier                                                    *)

Recharger ==
    /\ livres' = ChargeLivres(disque.livres)
    /\ utilisateurs' = ChargeUtilisateurs(disque.utilisateurs)
    /\ emprunts' = ChargeEmprunts(disque.emprunts)
    /\ suspensions' = ChargeSuspensions(disque.emprunts, now)
    /\ reservations' = ChargeReservations(disque.reservations)
    /\ files' = ChargeFiles(disque.reservations)
    /\ last' = Appel("recharger", "", "", "", 0, "ok")
    /\ UNCHANGED <<emprunt_cable, now, disque>>

---------------------------------------------------------------------------
(* Etats initiaux : les tables apres le chargement des fichiers *)

\* un User charge : type, limite du type, actif, aucun emprunt en cours,
\* historique vide
NouvelUtilisateur(t) ==
    [type |-> t, limite |-> LimiteEmprunt(t), statut |-> "actif",
     livres_empruntes |-> <<>>, historique |-> 0]

\* les codes-barres des exemplaires charges, dans l'ordre du fichier
CodeDeRang == <<"00001", "00002", "00003", "00004">>

\* un Livre charge avec n exemplaires disponibles
LivreCharge(n) ==
    LET exs == [k \in 1..n |-> [code_barre |-> CodeDeRang[k],
                                statut |-> "disponible"]]
    IN [exemplaires |-> exs, statut |-> StatutCalcule(exs), compteur |-> 0]

\* U1 est etudiant, U2 professeur
TypeCharge(m) == IF m = "U1" THEN "ETUDIANT" ELSE "PROFESSEUR"

\* l'etat apres le chargement : le catalogue lv, les membres de M, aucun
\* emprunt, aucune suspension, aucune reservation
Charge(lv, M) ==
    /\ livres = lv
    /\ utilisateurs = [m \in M |-> NouvelUtilisateur(TypeCharge(m))]
    /\ emprunts = <<>>
    /\ suspensions = [m \in {} |-> 0]
    /\ reservations = <<>>
    /\ files = [i \in Isbns |-> <<>>]
    /\ emprunt_cable = TRUE
    /\ now = 0
    /\ disque = Fichiers(livres, utilisateurs, emprunts, suspensions,
                         reservations, files, now)
    /\ last = Appel("init", "", "", "", 0, "ok")

\* l'exploration s'arrete a me emprunts et mr reservations
Borne(me, mr) == Len(emprunts') <= me /\ Len(reservations') <= mr

---------------------------------------------------------------------------
(* Spec : catalogue vide au depart, le membre U1, toutes les operations    *)
(* qui touchent aux exemplaires, a un instant fixe                         *)

MaxEmprunts == 1
MaxReservations == 1

Init == Charge([i \in {} |-> 0], Matricules)

Next ==
    \/ \E i \in Isbns, cb \in Codes \cup {SansCode} :
          Emprunter("U1", i, cb, DUREE_PAR_DEFAUT)
          /\ Borne(MaxEmprunts, MaxReservations)
    \/ \E id \in 1..(Len(emprunts) + 1) : Retourner(id)
    \/ \E id \in 1..(Len(emprunts) + 1) :
          Renouveler(id, JOURS_RENOUVELLEMENT)
    \/ \E i \in Isbns :
          Reserver("U1", i) /\ Borne(MaxEmprunts, MaxReservations)
    \/ \E rid \in 1..(Len(reservations) + 1) : Annuler(rid)
    \/ \E rid \in 1..(Len(reservations) + 1) :
          Confirmer(rid) /\ Borne(MaxEmprunts, MaxReservations)
    \/ \E i \in Isbns : TraiterFile(i)
    \/ \E i \in Isbns : AjouterLivre(i)
    \/ \E i \in Isbns, cb \in Codes : AjouterExemplaire(i, cb, "disponible")
    \/ \E i \in Isbns : AjouterExemplaire(i, "00002", "perdu")
    \/ \E i \in Isbns, cb \in Codes : RetirerExemplaire(i, cb)

Spec == Init /\ [][Next]_vars

---------------------------------------------------------------------------
(* SpecFile : un livre a un exemplaire, deux membres, la file d'attente    *)

MaxEmpruntsFile == 2
MaxReservationsFile == 3

InitFile == Charge([i \in Isbns |-> LivreCharge(1)], Matricules)

NextFile ==
    \/ \E m \in Matricules, i \in Isbns :
          Emprunter(m, i, SansCode, DUREE_PAR_DEFAUT)
          /\ Borne(MaxEmpruntsFile, MaxReservationsFile)
    \/ \E id \in 1..(Len(emprunts) + 1) : Retourner(id)
    \/ \E m \in Matricules, i \in Isbns :
          Reserver(m, i) /\ Borne(MaxEmpruntsFile, MaxReservationsFile)
    \/ \E rid \in 1..(Len(reservations) + 1) : Annuler(rid)
    \/ \E rid \in 1..(Len(reservations) + 1) :
          Confirmer(rid) /\ Borne(MaxEmpruntsFile, MaxReservationsFile)
    \/ \E i \in Isbns : TraiterFile(i)
    \/ \E i \in Isbns : AjouterExemplaire(i, "00002", "disponible")
    \/ \E i \in Isbns : RetirerExemplaire(i, "00002")

SpecFile == InitFile /\ [][NextFile]_vars

---------------------------------------------------------------------------
(* SpecLimite : un livre a quatre exemplaires, la limite d'emprunts        *)

MaxEmpruntsLimite == 4
MaxReservationsLimite == 1

InitLimite == Charge([i \in Isbns |-> LivreCharge(4)], Matricules)

NextLimite ==
    \/ \E m \in Matricules, i \in Isbns :
          Emprunter(m, i, SansCode, DUREE_PAR_DEFAUT)
          /\ Borne(MaxEmpruntsLimite, MaxReservationsLimite)
    \/ \E id \in 1..(Len(emprunts) + 1) : Retourner(id)
    \/ \E m \in Matricules, i \in Isbns :
          Reserver(m, i) /\ Borne(MaxEmpruntsLimite, MaxReservationsLimite)
    \/ \E rid \in 1..(Len(reservations) + 1) :
          Confirmer(rid) /\ Borne(MaxEmpruntsLimite, MaxReservationsLimite)
    \/ \E m \in Matricules, st \in {"actif", "inactif"} :
          DefinirStatut(m, st)

SpecLimite == InitLimite /\ [][NextLimite]_vars

---------------------------------------------------------------------------
(* SpecDernier : un livre a un exemplaire et un second a ajouter, deux     *)
(* membres qui peuvent etre desactives ; le dernier exemplaire disponible  *)

MaxEmpruntsDernier == 3

InitDernier == Charge([i \in Isbns |-> LivreCharge(1)], Matricules)

NextDernier ==
    \/ \E m \in Matricules, i \in Isbns, cb \in {SansCode, "00001"} :
          Emprunter(m, i, cb, DUREE_PAR_DEFAUT)
          /\ Borne(MaxEmpruntsDernier, 0)
    \/ \E id \in 1..(Len(emprunts) + 1) : Retourner(id)
    \/ \E i \in Isbns : AjouterExemplaire(i, "00002", "disponible")
    \/ \E m \in Matricules, st \in {"actif", "inactif"} :
          DefinirStatut(m, st)

SpecDernier == InitDernier /\ [][NextDernier]_vars

---------------------------------------------------------------------------
(* SpecConfirmer : un membre, un livre a deux exemplaires, et tout ce qui  *)
(* peut faire echouer l'emprunt d'une reservation notifiee                 *)

MaxEmpruntsConfirmer == 3
MaxReservationsConfirmer == 1
MaxAttentesConfirmer == 1

\* un peu plus que la duree d'un emprunt
ApresEcheance == Jours(DUREE_PAR_DEFAUT) + 1

InitConfirmer == Charge([i \in Isbns |-> LivreCharge(2)], {"U1"})

NextConfirmer ==
    \/ \E i \in Isbns :
          Emprunter("U1", i, SansCode, DUREE_PAR_DEFAUT)
          /\ Borne(MaxEmpruntsConfirmer, MaxReservationsConfirmer)
    \/ \E id \in 1..(Len(emprunts) + 1) : Retourner(id)
    \/ \E i \in Isbns :
          Reserver("U1", i)
          /\ Borne(MaxEmpruntsConfirmer, MaxReservationsConfirmer)
    \/ \E rid \in 1..(Len(reservations) + 1) :
          Confirmer(rid)
          /\ Borne(MaxEmpruntsConfirmer, MaxReservationsConfirmer)
    \/ \E i \in Isbns : AjouterExemplaire(i, "00003", "disponible")
    \/ \E st \in {"actif", "inactif"} : DefinirStatut("U1", st)
    \/ SupprimerUtilisateur("U1")
    \/ \E i \in Isbns : SupprimerLivre(i)
    \/ Attendre(ApresEcheance)
       /\ now' <= MaxAttentesConfirmer * ApresEcheance

SpecConfirmer == InitConfirmer /\ [][NextConfirmer]_vars

---------------------------------------------------------------------------
(* SpecTemps : un membre, un livre a deux exemplaires, des emprunts d'un   *)
(* jour, les retards et les suspensions ; l'horloge avance d'un jour et    *)
(* demi a la fois, ce qui donne des retards de 0, 0.5, 2 et 3.5 jours      *)

MaxEmpruntsTemps == 3
MaxAttentes == 4

\* un jour et demi
PasTemps == TicksParJour + 1

InitTemps == Charge([i \in Isbns |-> LivreCharge(2)], {"U1"})

NextTemps ==
    \/ \E i \in Isbns :
          Emprunter("U1", i, SansCode, 1) /\ Borne(MaxEmpruntsTemps, 0)
    \/ \E id \in 1..(Len(emprunts) + 1) : Retourner(id)
    \/ AppliquerPenalites
    \/ Attendre(PasTemps) /\ now' <= MaxAttentes * PasTemps

SpecTemps == InitTemps /\ [][NextTemps]_vars

---------------------------------------------------------------------------
(* SpecRenouvellement : un emprunt d'un jour renouvele d'un jour           *)

MaxEmpruntsRenouvellement == 1
MaxTempsRenouvellement == 7

InitRenouvellement == Charge([i \in Isbns |-> LivreCharge(2)], {"U1"})

NextRenouvellement ==
    \/ \E i \in Isbns :
          Emprunter("U1", i, SansCode, 1)
          /\ Borne(MaxEmpruntsRenouvellement, 0)
    \/ \E id \in 1..(Len(emprunts) + 1) : Retourner(id)
    \/ \E id \in 1..(Len(emprunts) + 1) : Renouveler(id, 1)
    \/ Attendre(1) /\ now' <= MaxTempsRenouvellement

SpecRenouvellement == InitRenouvellement /\ [][NextRenouvellement]_vars

---------------------------------------------------------------------------
(* SpecProlongation : un emprunt d'un jour prolonge d'un ou de trois jours *)

MaxEmpruntsProlongation == 1
MaxTempsProlongation == 9

\* les durees que l'appelant passe a renouveler
JoursProlongation == {1, 3}

InitProlongation == Charge([i \in Isbns |-> LivreCharge(1)], {"U1"})

NextProlongation ==
    \/ \E i \in Isbns :
          Emprunter("U1", i, SansCode, 1)
          /\ Borne(MaxEmpruntsProlongation, 0)
    \/ \E id \in 1..(Len(emprunts) + 1) : Retourner(id)
    \/ \E id \in 1..(Len(emprunts) + 1), j \in JoursProlongation :
          Renouveler(id, j)
    \/ Attendre(1) /\ now' <= MaxTempsProlongation

SpecProlongation == InitProlongation /\ [][NextProlongation]_vars

---------------------------------------------------------------------------
(* SpecOrdre : un membre inscrit et un matricule inconnu, un livre a trois *)
(* exemplaires que l'on peut supprimer, des emprunts d'un jour, les        *)
(* penalites : toutes les combinaisons de refus d'un emprunt               *)

MaxEmpruntsOrdre == 3
MaxAttentesOrdre == 2

InitOrdre == Charge([i \in Isbns |-> LivreCharge(3)], {"U1"})

NextOrdre ==
    \/ \E m \in Matricules, i \in Isbns, cb \in {SansCode, "00001"} :
          Emprunter(m, i, cb, 1) /\ Borne(MaxEmpruntsOrdre, 0)
    \/ \E id \in 1..(Len(emprunts) + 1) : Retourner(id)
    \/ AppliquerPenalites
    \/ \E st \in {"actif", "inactif"} : DefinirStatut("U1", st)
    \/ \E i \in Isbns : SupprimerLivre(i)
    \/ Attendre(PasTemps) /\ now' <= MaxAttentesOrdre * PasTemps

SpecOrdre == InitOrdre /\ [][NextOrdre]_vars

---------------------------------------------------------------------------
(* SpecEchecs : un membre inscrit et un matricule inconnu, un catalogue    *)
(* que l'on peut vider et remplir, des emprunts d'un jour rendus en        *)
(* retard : les appels refuses de chaque operation                         *)

MaxEmpruntsEchecs == 2
MaxReservationsEchecs == 1
MaxAttentesEchecs == 3

InitEchecs == Charge([i \in Isbns |-> LivreCharge(1)], {"U1"})

NextEchecs ==
    \/ \E m \in Matricules, i \in Isbns :
          Emprunter(m, i, SansCode, 1)
          /\ Borne(MaxEmpruntsEchecs, MaxReservationsEchecs)
    \/ \E id \in 1..(Len(emprunts) + 1) : Retourner(id)
    \/ Renouveler(Len(emprunts) + 1, 1)
    \/ \E m \in Matricules, i \in Isbns :
          Reserver(m, i) /\ Borne(MaxEmpruntsEchecs, MaxReservationsEchecs)
    \/ \E i \in Isbns : AjouterLivre(i)
    \/ \E i \in Isbns : AjouterExemplaire(i, "00001", "disponible")
    \/ \E i \in Isbns : SupprimerLivre(i)
    \/ \E st \in {"actif", "inactif"} : DefinirStatut("U1", st)
    \/ Attendre(PasTemps) /\ now' <= MaxAttentesEchecs * PasTemps

SpecEchecs == InitEchecs /\ [][NextEchecs]_vars

---------------------------------------------------------------------------
(* SpecRetour : deux membres, un livre a un exemplaire, des emprunts d'un  *)
(* jour ou de trois, des reservations, l'horloge : les retours avant      *)
(* l'echeance, a l'echeance exacte, en retard et repetes                   *)

MaxEmpruntsRetour == 2
MaxReservationsRetour == 2
MaxAttentesRetour == 3

\* les durees que l'appelant passe a emprunter
DureesRetour == {1, 3}

InitRetour == Charge([i \in Isbns |-> LivreCharge(1)], Matricules)

NextRetour ==
    \/ \E m \in Matricules, i \in Isbns, d \in DureesRetour :
          Emprunter(m, i, SansCode, d)
          /\ Borne(MaxEmpruntsRetour, MaxReservationsRetour)
    \/ \E id \in 1..(Len(emprunts) + 1) : Retourner(id)
    \/ \E m \in Matricules, i \in Isbns :
          Reserver(m, i) /\ Borne(MaxEmpruntsRetour, MaxReservationsRetour)
    \/ Attendre(PasTemps) /\ now' <= MaxAttentesRetour * PasTemps

SpecRetour == InitRetour /\ [][NextRetour]_vars

---------------------------------------------------------------------------
(* SpecOrphelin : un membre, un livre a deux exemplaires, des emprunts     *)
(* d'un jour ; le livre, l'exemplaire ou le membre disparait avant le      *)
(* retour, ou avant le traitement de la file                               *)

MaxEmpruntsOrphelin == 2
MaxReservationsOrphelin == 1
MaxAttentesOrphelin == 2

InitOrphelin == Charge([i \in Isbns |-> LivreCharge(2)], {"U1"})

NextOrphelin ==
    \/ \E i \in Isbns :
          Emprunter("U1", i, SansCode, 1)
          /\ Borne(MaxEmpruntsOrphelin, MaxReservationsOrphelin)
    \/ \E id \in 1..(Len(emprunts) + 1) : Retourner(id)
    \/ \E i \in Isbns :
          Reserver("U1", i)
          /\ Borne(MaxEmpruntsOrphelin, MaxReservationsOrphelin)
    \/ \E i \in Isbns : TraiterFile(i)
    \/ \E i \in Isbns, cb \in Codes : RetirerExemplaire(i, cb)
    \/ \E i \in Isbns : SupprimerLivre(i)
    \/ SupprimerUtilisateur("U1")
    \/ Attendre(PasTemps) /\ now' <= MaxAttentesOrphelin * PasTemps

SpecOrphelin == InitOrphelin /\ [][NextOrphelin]_vars

---------------------------------------------------------------------------
(* SpecConfirmation : deux membres, un livre sans exemplaire au depart,    *)
(* des reservations que l'on notifie en ajoutant un exemplaire, que l'on   *)
(* confirme et que l'on annule                                             *)

MaxEmpruntsConfirmation == 2
MaxReservationsConfirmation == 2

InitConfirmation == Charge([i \in Isbns |-> LivreCharge(0)], Matricules)

NextConfirmation ==
    \/ \E m \in Matricules, i \in Isbns :
          Emprunter(m, i, SansCode, DUREE_PAR_DEFAUT)
          /\ Borne(MaxEmpruntsConfirmation, MaxReservationsConfirmation)
    \/ \E id \in 1..(Len(emprunts) + 1) : Retourner(id)
    \/ \E m \in Matricules, i \in Isbns :
          Reserver(m, i)
          /\ Borne(MaxEmpruntsConfirmation, MaxReservationsConfirmation)
    \/ \E rid \in 1..(Len(reservations) + 1) : Annuler(rid)
    \/ \E rid \in 1..(Len(reservations) + 1) :
          Confirmer(rid)
          /\ Borne(MaxEmpruntsConfirmation, MaxReservationsConfirmation)
    \/ \E i \in Isbns : TraiterFile(i)
    \/ \E i \in Isbns, cb \in Codes : AjouterExemplaire(i, cb, "disponible")

SpecConfirmation == InitConfirmation /\ [][NextConfirmation]_vars

---------------------------------------------------------------------------
(* SpecExemplaire : un professeur, un livre a trois exemplaires, un        *)
(* quatrieme perdu que l'on peut ajouter, des emprunts avec et sans        *)
(* code-barres                                                             *)

MaxEmpruntsExemplaire == 3

InitExemplaire == Charge([i \in Isbns |-> LivreCharge(3)], {"U2"})

NextExemplaire ==
    \/ \E i \in Isbns, cb \in {SansCode, "00001", "00002", "00003", "00004"} :
          Emprunter("U2", i, cb, DUREE_PAR_DEFAUT)
          /\ Borne(MaxEmpruntsExemplaire, 0)
    \/ \E id \in 1..(Len(emprunts) + 1) : Retourner(id)
    \/ \E i \in Isbns : AjouterExemplaire(i, "00004", "perdu")
    \/ \E i \in Isbns : RetirerExemplaire(i, "00001")

SpecExemplaire == InitExemplaire /\ [][NextExemplaire]_vars

---------------------------------------------------------------------------
(* SpecHistorique : un membre, un livre a un exemplaire, des emprunts d'un *)
(* jour que l'on renouvelle et que l'on rend, les penalites, une           *)
(* reservation, l'horloge : ce que deviennent les emprunts rendus          *)

MaxEmpruntsHistorique == 2
MaxReservationsHistorique == 1
MaxAttentesHistorique == 3

InitHistorique == Charge([i \in Isbns |-> LivreCharge(1)], {"U1"})

NextHistorique ==
    \/ \E i \in Isbns :
          Emprunter("U1", i, SansCode, 1)
          /\ Borne(MaxEmpruntsHistorique, MaxReservationsHistorique)
    \/ \E id \in 1..(Len(emprunts) + 1) : Retourner(id)
    \/ \E id \in 1..(Len(emprunts) + 1) : Renouveler(id, 1)
    \/ AppliquerPenalites
    \/ \E i \in Isbns :
          Reserver("U1", i)
          /\ Borne(MaxEmpruntsHistorique, MaxReservationsHistorique)
    \/ \E rid \in 1..(Len(reservations) + 1) : Annuler(rid)
    \/ \E rid \in 1..(Len(reservations) + 1) :
          Confirmer(rid)
          /\ Borne(MaxEmpruntsHistorique, MaxReservationsHistorique)
    \/ \E i \in Isbns : TraiterFile(i)
    \/ Attendre(PasTemps) /\ now' <= MaxAttentesHistorique * PasTemps

SpecHistorique == InitHistorique /\ [][NextHistorique]_vars

---------------------------------------------------------------------------
(* SpecSuspension : deux membres, des emprunts d'un jour rendus en retard, *)
(* une horloge qui avance d'un tick ou de deux jours ; la suspension       *)
(* expire, est verifiee par emprunter et listee                            *)

MaxEmpruntsSuspension == 2
MaxTempsSuspension == 10

PasSuspension == {1, 2 * TicksParJour}

InitSuspension == Charge([i \in Isbns |-> LivreCharge(2)], Matricules)

NextSuspension ==
    \/ \E m \in Matricules, i \in Isbns :
          Emprunter(m, i, SansCode, 1) /\ Borne(MaxEmpruntsSuspension, 0)
    \/ \E id \in 1..(Len(emprunts) + 1) : Retourner(id)
    \/ AppliquerPenalites
    \/ ListerSuspensions
    \/ \E d \in PasSuspension : Attendre(d) /\ now' <= MaxTempsSuspension

SpecSuspension == InitSuspension /\ [][NextSuspension]_vars

---------------------------------------------------------------------------
(* SpecCatalogue : deux ISBN, quatre codes-barres dont deux qui ne          *)
(* different que par la casse ; livres et exemplaires ajoutes et retires    *)

IsbnsCatalogue == {"i1", "i2"}

CodesCatalogue == {"00001", "a0002", "A0002", "00003"}

\* au plus autant d'exemplaires par livre
MaxExemplairesCatalogue == 2

InitCatalogue ==
    /\ livres = [i \in {"i1"} |-> LivreCharge(1)]
    /\ utilisateurs = [m \in {"U1"} |-> NouvelUtilisateur(TypeCharge(m))]
    /\ emprunts = <<>>
    /\ suspensions = [m \in {} |-> 0]
    /\ reservations = <<>>
    /\ files = [i \in IsbnsCatalogue |-> <<>>]
    /\ emprunt_cable = TRUE
    /\ now = 0
    /\ disque = Fichiers(livres, utilisateurs, emprunts, suspensions,
                         reservations, files, now)
    /\ last = Appel("init", "", "", "", 0, "ok")

NextCatalogue ==
    \/ \E i \in IsbnsCatalogue : AjouterLivre(i)
    \/ \E i \in IsbnsCatalogue : SupprimerLivre(i)
    \/ \E i \in IsbnsCatalogue, cb \in CodesCatalogue,
          st \in {"disponible", "perdu"} :
          /\ AjouterExemplaire(i, cb, st)
          /\ \A j \in DOMAIN livres' :
                Len(livres'[j].exemplaires) <= MaxExemplairesCatalogue
    \/ \E i \in IsbnsCatalogue, cb \in CodesCatalogue :
          RetirerExemplaire(i, cb)

SpecCatalogue == InitCatalogue /\ [][NextCatalogue]_vars

---------------------------------------------------------------------------
(* SpecListe : le catalogue tenu comme la liste _livres elle-meme, dans    *)
(* l'ordre des ajouts, ou rien n'interdit par construction deux entrees du *)
(* meme ISBN ; dans cette specification livres est cette liste             *)

IsbnsListe == {"i1", "i2", "i3", "i4"}

MaxLivresListe == 3

\* variante fautive : ajouter_livre ne cherche pas l'ISBN
IsbnExisteJamais(i) == FALSE

\* GestionLivre.isbn_existe sur la liste
IsbnExiste(i) == \E k \in 1..Len(livres) : livres[k].isbn = i

\* GestionLivre.sauvegarder sur la liste : le document ecrit
SauveListe(lv) ==
    [k \in 1..Len(lv) |->
        [isbn |-> lv[k].isbn,
         exemplaires |-> DataFormatLivre(lv[k].livre).exemplaires]]

\* GestionLivre.ajouter_livre sur la liste
AjouterLivreListe(i) ==
    /\ IF IsbnExiste(i)
       THEN /\ last' = Appel("ajouter_livre", "", i, "", 0, "IsbnExistant")
            /\ UNCHANGED livres
       ELSE /\ livres' = Append(livres, [isbn |-> i, livre |-> NouveauLivre])
            /\ last' = Appel("ajouter_livre", "", i, "", 0, "ok")
    /\ UNCHANGED <<utilisateurs, emprunts, suspensions, reservations, files,
                   emprunt_cable, now>>
    /\ disque' = IF IsbnExiste(i) THEN disque
                 ELSE [disque EXCEPT !.livres = SauveListe(livres')]

\* GestionLivre.supprimer_livre sur la liste : la premiere entree de cet
\* ISBN est retiree
SupprimerLivreListe(i) ==
    /\ LET k == PremierRang({j \in 1..Len(livres) : livres[j].isbn = i}) IN
       IF k # 0
       THEN /\ livres' = SubSeq(livres, 1, k - 1)
                           \o SubSeq(livres, k + 1, Len(livres))
            /\ last' = Appel("supprimer_livre", "", i, "", 0, "True")
       ELSE /\ last' = Appel("supprimer_livre", "", i, "", 0, "False")
            /\ UNCHANGED livres
    /\ UNCHANGED <<utilisateurs, emprunts, suspensions, reservations, files,
                   emprunt_cable, now, disque>>

InitListe ==
    /\ livres = <<[isbn |-> "i1", livre |-> LivreCharge(1)]>>
    /\ utilisateurs = [m \in {"U1"} |-> NouvelUtilisateur(TypeCharge(m))]
    /\ emprunts = <<>>
    /\ suspensions = [m \in {} |-> 0]
    /\ reservations = <<>>
    /\ files = [i \in IsbnsListe |-> <<>>]
    /\ emprunt_cable = TRUE
    /\ now = 0
    /\ disque = [livres |-> SauveListe(livres),
                 utilisateurs |-> SauveUtilisateurs(utilisateurs),
                 emprunts |-> SauveEmprunts(emprunts, suspensions, now),
                 reservations |-> SauveReservations(reservations, files)]
    /\ last = Appel("init", "", "", "", 0, "ok")

NextListe ==
    \/ \E i \in IsbnsListe :
          AjouterLivreListe(i) /\ Len(livres') <= MaxLivresListe
    \/ \E i \in IsbnsListe : SupprimerLivreListe(i)

SpecListe == InitListe /\ [][NextListe]_vars

---------------------------------------------------------------------------
(* SpecPersistance : un membre, un livre a un exemplaire que l'on peut     *)
(* retirer, rajouter et supprimer, des emprunts, une reservation : ce que  *)
(* contiennent les quatre fichiers apres chaque appel                      *)

MaxEmpruntsPersistance == 2
MaxReservationsPersistance == 1

InitPersistance == Charge([i \in Isbns |-> LivreCharge(1)], {"U1"})

NextPersistance ==
    \/ \E i \in Isbns :
          Emprunter("U1", i, SansCode, DUREE_PAR_DEFAUT)
          /\ Borne(MaxEmpruntsPersistance, MaxReservationsPersistance)
    \/ \E id \in 1..(Len(emprunts) + 1) : Retourner(id)
    \/ \E id \in 1..(Len(emprunts) + 1) :
          Renouveler(id, JOURS_RENOUVELLEMENT)
    \/ \E i \in Isbns :
          Reserver("U1", i)
          /\ Borne(MaxEmpruntsPersistance, MaxReservationsPersistance)
    \/ \E i \in Isbns : TraiterFile(i)
    \/ \E rid \in 1..(Len(reservations) + 1) :
          Confirmer(rid)
          /\ Borne(MaxEmpruntsPersistance, MaxReservationsPersistance)
    \/ \E rid \in 1..(Len(reservations) + 1) : Annuler(rid)
    \/ \E i \in Isbns : AjouterLivre(i)
    \/ \E i \in Isbns : AjouterExemplaire(i, "00002", "disponible")
    \/ \E i \in Isbns, cb \in Codes : RetirerExemplaire(i, cb)
    \/ \E i \in Isbns : SupprimerLivre(i)

SpecPersistance == InitPersistance /\ [][NextPersistance]_vars

---------------------------------------------------------------------------
(* SpecAllerRetour : chaque entite ecrite puis relue.  Dans cette          *)
(* specification l'unite de temps est la demi-seconde, pour que les        *)
(* instants aient une fraction de seconde comme ceux de datetime.now(), et *)
(* chaque exemplaire porte son id_exemplaire.  Les etats de depart sont    *)
(* ceux d'un membre qui a emprunte pour un jour l'unique exemplaire d'un   *)
(* livre, l'a rendu ou non autour de l'echeance, et l'a reserve ou non     *)

\* unites de temps par seconde
DemiSecondes == 2

\* timedelta(days = 1) dans cette unite
UnitesParJour == 86400 * DemiSecondes

\* les instants observes : d'une demi-seconde avant la premiere echeance
\* possible a MaxTempsAllerRetour demi-secondes apres
MaxTempsAllerRetour == 3

Fenetre == (UnitesParJour - 1)..(UnitesParJour + MaxTempsAllerRetour)

\* les identifiants que generer_id_unique("EX") peut tirer
MaxIdsAllerRetour == 3

IdsExemplaire == 1..MaxIdsAllerRetour

\* Exemplaire.data_format, avec l'identifiant
DataFormatExemplaireId(ex) ==
    [id_exemplaire |-> ex.id_exemplaire, code_barre |-> ex.code_barre,
     statut |-> ex.statut]

\* GestionLivre.sauvegarder, avec les identifiants des exemplaires
SauveLivresId(lv) ==
    [i \in DOMAIN lv |->
        [exemplaires |-> [k \in 1..Len(lv[i].exemplaires) |->
                             DataFormatExemplaireId(lv[i].exemplaires[k])]]]

\* GestionLivre.__charger : Exemplaire(code_barre, etat, localisation,
\* statut) est construit sans l'identifiant ecrit, et son constructeur en
\* genere un nouveau, ids[k] pour l'exemplaire de rang k
ChargeLivresId(doc, ids) ==
    [i \in DOMAIN doc |->
        LET exs == [k \in 1..Len(doc[i].exemplaires) |->
                       [id_exemplaire |-> ids[k],
                        code_barre |-> doc[i].exemplaires[k].code_barre,
                        statut |-> doc[i].exemplaires[k].statut]]
        IN [exemplaires |-> exs, statut |-> StatutCalcule(exs),
            compteur |-> 0]]

\* GestionEmprunt.__sauvegarder quand l'unite est la demi-seconde
SauveEmpruntsDemi(es, sus, t) ==
    [emprunts |-> [k \in 1..Len(es) |->
                      DataFormatEmprunt(es[k], t, DemiSecondes)],
     suspensions |-> sus]

\* les fichiers quand tout vient d'etre ecrit, et ids_book.txt qui contient
\* les identifiants deja generes
FichiersId(lv, us, es, sus, rs, f, t, ids) ==
    [livres |-> SauveLivresId(lv), utilisateurs |-> SauveUtilisateurs(us),
     emprunts |-> SauveEmpruntsDemi(es, sus, t),
     reservations |-> SauveReservations(rs, f), ids |-> ids]

\* un emprunt d'un jour fait a l'instant d0 par U1, rendu ou non
EmpruntTire(d0, r) ==
    [matricule_user |-> "U1", isbn |-> "i1", code_barre |-> "00001",
     date_emprunt |-> d0, date_echeance |-> d0 + UnitesParJour,
     date_retour |-> r, renouvellements |-> 0]

\* l'emprunt que fait confirmer a l'instant t : DUREE_PAR_DEFAUT jours
EmpruntConfirme(t) ==
    [matricule_user |-> "U1", isbn |-> "i1", code_barre |-> "00001",
     date_emprunt |-> t,
     date_echeance |-> t + DUREE_PAR_DEFAUT * UnitesParJour,
     date_retour |-> <<>>, renouvellements |-> 0]

\* d0 : l'instant de l'emprunt ; r : celui du retour s'il a eu lieu ;
\* sm : le statut du membre ; sr : le statut de sa reservation du livre,
\* faite juste apres l'emprunt ("aucune" s'il n'a pas reserve) ; t :
\* l'instant present.  Une reservation en attente suppose l'exemplaire
\* sorti, une reservation notifiee un retour, une reservation confirmee
\* un retour a temps (sans suspension) suivi de l'emprunt de confirmer
InitAllerRetour ==
    \E d0 \in 0..(DemiSecondes - 1),
       r \in {<<>>} \cup {<<x>> : x \in Fenetre},
       sm \in {"actif", "inactif"},
       sr \in {"aucune", "en_attente", "notifie", "confirme", "annule"},
       t \in Fenetre :
       LET e == EmpruntTire(d0, r)
           rendu == r # <<>>
           tard == rendu /\ r[1] > e.date_echeance
           sorti == ~rendu \/ sr = "confirme"
           exs == <<[id_exemplaire |-> 1, code_barre |-> "00001",
                     statut |-> IF sorti THEN "emprunte"
                                ELSE "disponible"]>>
       IN /\ sr = "en_attente" => ~rendu
          /\ sr = "notifie" => rendu
          /\ sr = "confirme" => rendu /\ ~tard
          /\ rendu => r[1] <= t
          /\ now = t
          /\ emprunts = IF sr = "confirme"
                        THEN <<e, EmpruntConfirme(r[1])>> ELSE <<e>>
          /\ livres = [i \in Isbns |->
                         [exemplaires |-> exs, statut |-> StatutCalcule(exs),
                          compteur |-> Len(emprunts)]]
          /\ utilisateurs =
               [m \in {"U1"} |->
                  [type |-> "ETUDIANT", limite |-> LimiteEmprunt("ETUDIANT"),
                   statut |-> sm,
                   livres_empruntes |->
                      IF sorti
                      THEN <<[isbn |-> "i1", id_exemplaire |-> "00001"]>>
                      ELSE <<>>,
                   historique |-> Len(emprunts) + (IF rendu THEN 1 ELSE 0)]]
          /\ suspensions =
               IF tard
               THEN [m \in {"U1"} |->
                       r[1] + FACTEUR_SUSPENSION * UnitesParJour]
               ELSE [m \in {} |-> 0]
          /\ reservations =
               IF sr = "aucune" THEN <<>>
               ELSE <<[matricule_user |-> "U1", isbn |-> "i1",
                       date_reservation |-> d0, statut |-> sr]>>
          /\ files = [i \in Isbns |->
                        IF sr \in {"en_attente", "notifie"} THEN <<1>>
                        ELSE <<>>]
          /\ emprunt_cable = TRUE
          /\ disque = FichiersId(livres, utilisateurs, emprunts, suspensions,
                                 reservations, files, now, {1})
          /\ last = Appel("init", "", "", "", 0, "ok")

\* Chaque service ecrit son fichier (sauvegarder) puis est reconstruit a
\* partir de lui (__charger), au meme instant : chaque Livre, User, Emprunt
\* et Reservation passe par data_format puis par son constructeur ou
\* from_dict.  ids : les identifiants que generer_id_unique donne aux
\* exemplaires reconstruits, hors de ceux de ids_book.txt
AllerRetour(ids) ==
    /\ \A k \in DOMAIN ids : ids[k] \notin disque.ids
    /\ \A j, k \in DOMAIN ids : j # k => ids[j] # ids[k]
    /\ disque' = FichiersId(livres, utilisateurs, emprunts,
                            NettoyerSuspensions(suspensions, now),
                            reservations, files, now,
                            disque.ids \cup {ids[k] : k \in DOMAIN ids})
    /\ livres' = ChargeLivresId(disque'.livres, ids)
    /\ utilisateurs' = ChargeUtilisateurs(disque'.utilisateurs)
    /\ emprunts' = ChargeEmprunts(disque'.emprunts)
    /\ suspensions' = ChargeSuspensions(disque'.emprunts, now)
    /\ reservations' = ChargeReservations(disque'.reservations)
    /\ files' = ChargeFiles(disque'.reservations)
    /\ last' = Appel("aller_retour", "", "", "", 0, "ok")
    /\ UNCHANGED <<emprunt_cable, now>>

NextAllerRetour ==
    \/ \E ids \in [1..1 -> IdsExemplaire] : AllerRetour(ids)
    \/ Attendre(1) /\ now' \in Fenetre

SpecAllerRetour == InitAllerRetour /\ [][NextAllerRetour]_vars

---------------------------------------------------------------------------
(* SpecSansEmprunts : la gestion des reservations construite sans gestion  *)
(* des emprunts (gestion_emprunt=None), alors que la gestion des emprunts  *)
(* existe de son cote : deux membres, un livre a un exemplaire, des        *)
(* emprunts, des retours, des reservations confirmees sans emprunt         *)

MaxEmpruntsSansEmprunts == 2
MaxReservationsSansEmprunts == 2

InitSansEmprunts ==
    /\ livres = [i \in Isbns |-> LivreCharge(1)]
    /\ utilisateurs = [m \in Matricules |-> NouvelUtilisateur(TypeCharge(m))]
    /\ emprunts = <<>>
    /\ suspensions = [m \in {} |-> 0]
    /\ reservations = <<>>
    /\ files = [i \in Isbns |-> <<>>]
    /\ emprunt_cable = FALSE
    /\ now = 0
    /\ disque = Fichiers(livres, utilisateurs, emprunts, suspensions,
                         reservations, files, now)
    /\ last = Appel("init", "", "", "", 0, "ok")

NextSansEmprunts ==
    \/ \E m \in Matricules, i \in Isbns :
          Emprunter(m, i, SansCode, DUREE_PAR_DEFAUT)
          /\ Borne(MaxEmpruntsSansEmprunts, MaxReservationsSansEmprunts)
    \/ \E id \in 1..(Len(emprunts) + 1) : Retourner(id)
    \/ \E m \in Matricules, i \in Isbns :
          Reserver(m, i)
          /\ Borne(MaxEmpruntsSansEmprunts, MaxReservationsSansEmprunts)
    \/ \E rid \in 1..(Len(reservations) + 1) : Annuler(rid)
    \/ \E rid \in 1..(Len(reservations) + 1) : Confirmer(rid)
    \/ \E i \in Isbns : TraiterFile(i)
    \/ \E m \in Matricules, st \in {"actif", "inactif"} : DefinirStatut(m, st)

SpecSansEmprunts == InitSansEmprunts /\ [][NextSansEmprunts]_vars

---------------------------------------------------------------------------
(* SpecCompteur : deux membres, un livre a deux exemplaires present depuis *)
(* le depart, des emprunts directs et par confirmation, des retours, et le *)
(* programme que l'on relance : le compteur d'emprunts du livre            *)

MaxEmpruntsCompteur == 3
MaxReservationsCompteur == 1

InitCompteur == Charge([i \in Isbns |-> LivreCharge(2)], Matricules)

NextCompteur ==
    \/ \E m \in Matricules, i \in Isbns :
          Emprunter(m, i, SansCode, DUREE_PAR_DEFAUT)
          /\ Borne(MaxEmpruntsCompteur, MaxReservationsCompteur)
    \/ \E id \in 1..(Len(emprunts) + 1) : Retourner(id)
    \/ \E m \in Matricules, i \in Isbns :
          Reserver(m, i)
          /\ Borne(MaxEmpruntsCompteur, MaxReservationsCompteur)
    \/ \E rid \in 1..(Len(reservations) + 1) :
          Confirmer(rid)
          /\ Borne(MaxEmpruntsCompteur, MaxReservationsCompteur)
    \/ \E rid \in 1..(Len(reservations) + 1) : Annuler(rid)
    \/ Recharger

SpecCompteur == InitCompteur /\ [][NextCompteur]_vars

---------------------------------------------------------------------------
(* Exemplaires retires et rajoutes pendant des emprunts : un livre a un
   exemplaire, deux membres, les exemplaires s'ajoutent et se retirent *)

MaxEmpruntsReference == 2
MaxReservationsReference == 1

InitReference == Charge([i \in Isbns |-> LivreCharge(1)], Matricules)

NextReference ==
    \/ \E m \in Matricules, i \in Isbns, cb \in {SansCode} \cup Codes :
          Emprunter(m, i, cb, DUREE_PAR_DEFAUT)
          /\ Borne(MaxEmpruntsReference, MaxReservationsReference)
    \/ \E id \in 1..(Len(emprunts) + 1) : Retourner(id)
    \/ \E m \in Matricules, i \in Isbns :
          Reserver(m, i)
          /\ Borne(MaxEmpruntsReference, MaxReservationsReference)
    \/ \E rid \in 1..(Len(reservations) + 1) :
          Confirmer(rid)
          /\ Borne(MaxEmpruntsReference, MaxReservationsReference)
    \/ \E i \in Isbns, cb \in Codes : AjouterExemplaire(i, cb, "disponible")
    \/ \E i \in Isbns, cb \in Codes : RetirerExemplaire(i, cb)

SpecReference == InitReference /\ [][NextReference]_vars

---------------------------------------------------------------------------
(* La table des files d'attente au fil des reservations, annulations,
   notifications, confirmations et relances du programme *)

MaxEmpruntsAttente == 2
MaxReservationsAttente == 3

InitAttente == Charge([i \in Isbns |-> LivreCharge(1)], Matricules)

NextAttente ==
    \/ \E m \in Matricules, i \in Isbns :
          Emprunter(m, i, SansCode, DUREE_PAR_DEFAUT)
          /\ Borne(MaxEmpruntsAttente, MaxReservationsAttente)
    \/ \E id \in 1..Len(emprunts) : Retourner(id)
    \/ \E m \in Matricules, i \in Isbns :
          Reserver(m, i)
          /\ Borne(MaxEmpruntsAttente, MaxReservationsAttente)
    \/ \E rid \in 1..Len(reservations) : Annuler(rid)
    \/ \E rid \in 1..Len(reservations) :
          Confirmer(rid)
          /\ Borne(MaxEmpruntsAttente, MaxReservationsAttente)
    \/ \E i \in Isbns : TraiterFile(i)
    \/ Recharger

SpecAttente == InitAttente /\ [][NextAttente]_vars

---------------------------------------------------------------------------
(* Echeance des emprunts renouveles : emprunts d'un jour, renouvellements
   de deux jours, retours a toute heure *)

MaxEmpruntsEcheance == 2
MaxTempsEcheance == 11

\* la duree des emprunts et les jours passes a renouveler
DureeEcheance == 1
JoursEcheance == 2

InitEcheance == Charge([i \in Isbns |-> LivreCharge(2)], {"U1"})

NextEcheance ==
    \/ \E i \in Isbns :
          Emprunter("U1", i, SansCode, DureeEcheance)
          /\ Borne(MaxEmpruntsEcheance, 0)
    \/ \E id \in 1..Len(emprunts) : Retourner(id)
    \/ \E id \in 1..Len(emprunts) : Renouveler(id, JoursEcheance)
    \/ Attendre(1) /\ now' <= MaxTempsEcheance

SpecEcheance == InitEcheance /\ [][NextEcheance]_vars

---------------------------------------------------------------------------
(* Vocabulaire des proprietes *)

\* le nombre d'exemplaires d'un livre dont le statut est "disponible"
NbDisponibles(l) ==
    Cardinality({k \in 1..Len(l.exemplaires) :
                    l.exemplaires[k].statut = "disponible"})

\* la limite d'emprunts d'une categorie : Student 3, Teacher 10, AdminStaff 5
LimiteCategorie(t) ==
    CASE t = "ETUDIANT" -> 3
      [] t = "PROFESSEUR" -> 10
      [] t = "EXTERNE" -> 5

\* le pas qui s'acheve est un appel de l'operation op
AppelDe(op) == last'.op = op

\* la suite s est un prefixe de la suite t
Prefixe(s, t) == Len(s) <= Len(t) /\ \A k \in 1..Len(s) : t[k] = s[k]

---------------------------------------------------------------------------
(* C1 *)

\* C1 : in every reachable state every book of the catalogue has status
\* "indisponible" (Unavailable) iff it has no copy, status "disponible"
\* (Available) iff at least one of its copies is "disponible", and status
\* "emprunte" (OnLoan) otherwise.
C1_StatutLivre ==
    \A i \in DOMAIN livres :
        /\ livres[i].statut \in {"indisponible", "disponible", "emprunte"}
        /\ livres[i].statut = "indisponible"
              <=> Len(livres[i].exemplaires) = 0
        /\ livres[i].statut = "disponible" <=> NbDisponibles(livres[i]) >= 1

\* a reservation was confirmed, and the book is left with copies none of
\* which is available
C1_Temoin ==
    /\ last.op = "confirmer"
    /\ last.res = "True"
    /\ "i1" \in DOMAIN livres
    /\ Len(livres["i1"].exemplaires) >= 1
    /\ NbDisponibles(livres["i1"]) = 0
    /\ livres["i1"].statut = "emprunte"

---------------------------------------------------------------------------
(* C2 *)

\* C2 : in every state reached by emprunter, confirmer, retourner, activer
\* and desactiver, every member's list of current loans is at most as long
\* as the limit of the member's category (3, 10, 5).
C2_LimiteRespectee ==
    \A m \in DOMAIN utilisateurs :
        Len(utilisateurs[m].livres_empruntes)
            <= LimiteCategorie(utilisateurs[m].type)

\* the student holds three loans, is active, and was just refused a fourth
C2_Temoin ==
    /\ last.op = "emprunter"
    /\ last.m = "U1"
    /\ last.res = "LimiteAtteinte"
    /\ utilisateurs["U1"].type = "ETUDIANT"
    /\ utilisateurs["U1"].statut = "actif"
    /\ Len(utilisateurs["U1"].livres_empruntes) = 3

---------------------------------------------------------------------------
(* C3 *)

\* whole days between the due date and the instant t, at least 1
C3_JoursComptes(e, t) ==
    IF (t - e.date_echeance) \div TicksParJour < 1 THEN 1
    ELSE (t - e.date_echeance) \div TicksParJour

\* return time + 3 x max(1, whole days late) days
C3_Expiration(e, t) == t + 3 * C3_JoursComptes(e, t) * TicksParJour

\* this step returns the loan id, not yet returned, strictly after its due
\* date
C3_RetourTardif(id) ==
    /\ AppelDe("retourner")
    /\ last'.id = id
    /\ ~EstRetourne(emprunts[id])
    /\ now > emprunts[id].date_echeance

\* a late return sets the member's suspension to the expiry of the claim
C3_ExpirationPosee ==
    \A id \in 1..Len(emprunts) :
        C3_RetourTardif(id) =>
            /\ emprunts[id].matricule_user \in DOMAIN suspensions'
            /\ suspensions'[emprunts[id].matricule_user]
                 = C3_Expiration(emprunts[id], now)

\* this step is a refused borrow that creates no loan
C3_Refuse == last'.res = "UtilisateurSuspendu" /\ emprunts' = emprunts

\* C3, the part the program keeps : a return strictly after the due date
\* sets the member's suspension expiry to return time + 3 x max(1, whole
\* days late) days, and every borrow by a registered member whose entry in
\* the suspension table is later than now fails with UtilisateurSuspendu
\* and creates no loan.
C3_Suspension ==
    [][/\ C3_ExpirationPosee
       /\ (/\ AppelDe("emprunter")
           /\ last'.m \in DOMAIN utilisateurs
           /\ last'.m \in DOMAIN suspensions
           /\ now < suspensions[last'.m]) => C3_Refuse]_vars

\* C3 : a return strictly after the due date sets the member's suspension
\* expiry to return time + 3 x max(1, whole days late) days, and every
\* borrow by that member at any time before that expiry fails with
\* UtilisateurSuspendu and creates no loan.
C3_CommeEcrit ==
    [][/\ C3_ExpirationPosee
       /\ \A id \in 1..Len(emprunts) :
            (/\ AppelDe("emprunter")
             /\ last'.m = emprunts[id].matricule_user
             /\ EstRetourne(emprunts[id])
             /\ emprunts[id].date_retour[1] > emprunts[id].date_echeance
             /\ now < C3_Expiration(emprunts[id], emprunts[id].date_retour[1]))
            => C3_Refuse]_vars

\* a loan was returned less than a day late, time has passed, its expiry is
\* the member's entry and a borrow has just been refused
C3_Temoin ==
    /\ last.op = "emprunter"
    /\ last.res = "UtilisateurSuspendu"
    /\ \E id \in 1..Len(emprunts) :
          /\ EstRetourne(emprunts[id])
          /\ emprunts[id].date_retour[1] > emprunts[id].date_echeance
          /\ emprunts[id].date_retour[1] - emprunts[id].date_echeance
               < TicksParJour
          /\ now > emprunts[id].date_retour[1]
          /\ last.m = emprunts[id].matricule_user
          /\ last.m \in DOMAIN suspensions
          /\ suspensions[last.m]
               = C3_Expiration(emprunts[id], emprunts[id].date_retour[1])

---------------------------------------------------------------------------
(* C4 *)

\* the changes of status a reservation may make
C4_Permis ==
    {<<"en_attente", "notifie">>, <<"notifie", "confirme">>,
     <<"en_attente", "annule">>, <<"notifie", "annule">>}

\* C4 : a reservation's status only changes along en_attente -> notifie,
\* notifie -> confirme, en_attente -> annule or notifie -> annule; confirme
\* and annule are terminal.
C4_Transitions ==
    [][/\ Len(reservations') >= Len(reservations)
       /\ \A rid \in 1..Len(reservations) :
            \/ reservations'[rid].statut = reservations[rid].statut
            \/ <<reservations[rid].statut, reservations'[rid].statut>>
                 \in C4_Permis]_vars

---------------------------------------------------------------------------
(* C5 *)

\* one of the reasons for which emprunter refuses (m, i) : member missing,
\* suspended, inactive or at the loan limit, book missing, no available copy
C5_EmpruntEchoue(m, i) ==
    \/ m \notin DOMAIN utilisateurs
    \/ m \in DOMAIN suspensions /\ now < suspensions[m]
    \/ utilisateurs[m].statut = "inactif"
    \/ Len(utilisateurs[m].livres_empruntes)
         >= LimiteCategorie(utilisateurs[m].type)
    \/ i \notin DOMAIN livres
    \/ NbDisponibles(livres[i]) = 0

\* C5 : confirmer on a notified reservation, with the loan service wired,
\* whose borrow fails (member missing, suspended, inactive, at the limit,
\* book missing, no available copy) returns False and leaves the
\* reservation notified and the queues, the loans, the books with their
\* copies and the members with their loan lists unchanged.
C5_ConfirmerEchec ==
    [][\A rid \in 1..Len(reservations) :
         (/\ AppelDe("confirmer")
          /\ last'.id = rid
          /\ reservations[rid].statut = "notifie"
          /\ emprunt_cable
          /\ C5_EmpruntEchoue(reservations[rid].matricule_user,
                              reservations[rid].isbn))
         => /\ last'.res = "False"
            /\ reservations' = reservations
            /\ reservations'[rid].statut = "notifie"
            /\ files' = files
            /\ emprunts' = emprunts
            /\ livres' = livres
            /\ utilisateurs' = utilisateurs]_vars

\* confirmer has just returned False on a reservation that is notified
C5_Refusee ==
    /\ last.op = "confirmer"
    /\ last.res = "False"
    /\ last.id \in 1..Len(reservations)
    /\ reservations[last.id].statut = "notifie"
    /\ emprunt_cable

\* ... because the member is suspended
C5_Temoin ==
    /\ C5_Refusee
    /\ last.m \in DOMAIN utilisateurs
    /\ last.m \in DOMAIN suspensions
    /\ now < suspensions[last.m]

\* ... because the member was deleted
C5_TemoinMembreAbsent == C5_Refusee /\ last.m \notin DOMAIN utilisateurs

\* ... because the member is inactive (and neither suspended nor at the
\* limit)
C5_TemoinInactif ==
    /\ C5_Refusee
    /\ last.m \in DOMAIN utilisateurs
    /\ last.m \notin DOMAIN suspensions
    /\ utilisateurs[last.m].statut = "inactif"
    /\ Len(utilisateurs[last.m].livres_empruntes) < 3

\* ... because the member is at the loan limit
C5_TemoinLimite ==
    /\ C5_Refusee
    /\ last.m \in DOMAIN utilisateurs
    /\ last.m \notin DOMAIN suspensions
    /\ utilisateurs[last.m].statut = "actif"
    /\ Len(utilisateurs[last.m].livres_empruntes) = 3

\* ... because the book was deleted
C5_TemoinLivreAbsent ==
    /\ C5_Refusee
    /\ last.m \in DOMAIN utilisateurs
    /\ "i1" \notin DOMAIN livres
    /\ last.m \notin DOMAIN suspensions
    /\ PeutEmprunter(utilisateurs[last.m])

\* ... because no copy is available any more
C5_TemoinSansExemplaire ==
    /\ C5_Refusee
    /\ last.m \in DOMAIN utilisateurs
    /\ last.m \notin DOMAIN suspensions
    /\ PeutEmprunter(utilisateurs[last.m])
    /\ "i1" \in DOMAIN livres
    /\ NbDisponibles(livres["i1"]) = 0

---------------------------------------------------------------------------
(* C6 *)

\* this step appends exactly one loan, for member m and book i, not
\* returned, and takes one available copy of i, the loan's
C6_UnEmprunt(m, i) ==
    /\ Len(emprunts') = Len(emprunts) + 1
    /\ Prefixe(emprunts, emprunts')
    /\ emprunts'[Len(emprunts')].matricule_user = m
    /\ emprunts'[Len(emprunts')].isbn = i
    /\ ~EstRetourne(emprunts'[Len(emprunts')])
    /\ i \in DOMAIN livres /\ i \in DOMAIN livres'
    /\ Len(livres'[i].exemplaires) = Len(livres[i].exemplaires)
    /\ \E k \in 1..Len(livres[i].exemplaires) :
          /\ livres[i].exemplaires[k].statut = "disponible"
          /\ livres'[i].exemplaires[k].statut = "emprunte"
          /\ livres'[i].exemplaires[k].code_barre
               = emprunts'[Len(emprunts')].code_barre
          /\ livres[i].exemplaires[k].code_barre
               = emprunts'[Len(emprunts')].code_barre
          /\ \A j \in 1..Len(livres[i].exemplaires) :
                j # k => livres'[i].exemplaires[j] = livres[i].exemplaires[j]

\* C6 : a confirmer that returns True on a notified reservation creates
\* exactly one loan for the reservation's member and book, turns one
\* available copy of the book to "emprunte", moves the reservation to
\* "confirme" and removes its id from the book's queue; and no reservation
\* becomes "confirme" in a step that does not create such a loan.
C6_ConfirmerReussi ==
    [][\A rid \in 1..Len(reservations) :
         /\ (/\ AppelDe("confirmer")
             /\ last'.id = rid
             /\ last'.res = "True"
             /\ emprunt_cable)
            => /\ reservations[rid].statut = "notifie"
               /\ C6_UnEmprunt(reservations[rid].matricule_user,
                               reservations[rid].isbn)
               /\ reservations'[rid].statut = "confirme"
               /\ \A k \in 1..Len(files'[reservations[rid].isbn]) :
                     files'[reservations[rid].isbn][k] # rid
         /\ (/\ reservations[rid].statut # "confirme"
             /\ reservations'[rid].statut = "confirme")
            => /\ AppelDe("confirmer")
               /\ last'.id = rid
               /\ last'.res = "True"
               /\ C6_UnEmprunt(reservations[rid].matricule_user,
                               reservations[rid].isbn)]_vars

\* a confirmer has just returned True : the reservation is confirmed and
\* the last loan is its member's
C6_Temoin ==
    /\ last.op = "confirmer"
    /\ last.res = "True"
    /\ last.id \in 1..Len(reservations)
    /\ reservations[last.id].statut = "confirme"
    /\ Len(emprunts) >= 1
    /\ emprunts[Len(emprunts)].matricule_user
         = reservations[last.id].matricule_user
    /\ ~EstRetourne(emprunts[Len(emprunts)])

---------------------------------------------------------------------------
(* C7 *)

\* the reservations that this step moves from en_attente to notifie
C7_Notifiees ==
    {rid \in 1..Len(reservations) :
        /\ reservations[rid].statut = "en_attente"
        /\ reservations'[rid].statut = "notifie"}

\* rid is the first id of the queue of its book that is en_attente
C7_PremiereEnAttente(rid) ==
    LET f == files[reservations[rid].isbn] IN
    \E k \in 1..Len(f) :
        /\ f[k] = rid
        /\ \A j \in 1..(k - 1) : reservations[f[j]].statut # "en_attente"

\* C7 : a step notifies at most one reservation, the notified one is the
\* earliest reservation of its book's queue that is still en_attente, and
\* no reservation becomes notifie while a reservation of the same book
\* created earlier is still en_attente.
C7_Fifo ==
    [][/\ Cardinality(C7_Notifiees) <= 1
       /\ \A rid \in C7_Notifiees :
            /\ C7_PremiereEnAttente(rid)
            /\ \A autre \in 1..(rid - 1) :
                  reservations[autre].isbn = reservations[rid].isbn
                     => reservations[autre].statut # "en_attente"]_vars

\* the only copy has come back : the first of the two reservations of the
\* queue is notified, and the second still waits
C7_Temoin ==
    /\ last.op = "retourner"
    /\ files["i1"] = <<1, 2>>
    /\ Len(reservations) >= 2
    /\ reservations[1].statut = "notifie"
    /\ reservations[2].statut = "en_attente"
    /\ reservations[2].isbn = reservations[1].isbn

---------------------------------------------------------------------------
(* C8 *)

\* the ranks of the queue of i whose reservation is en_attente
C8_RangsEnAttente(i) ==
    {k \in 1..Len(files[i]) : reservations[files[i][k]].statut = "en_attente"}

\* this step returns a loan of book i that was not yet returned
C8_Retour(i) ==
    /\ AppelDe("retourner")
    /\ last'.id \in 1..Len(emprunts)
    /\ ~EstRetourne(emprunts[last'.id])
    /\ emprunts[last'.id].isbn = i

\* this step adds a copy to book i
C8_Ajout(i) ==
    /\ AppelDe("ajouter_exemplaire")
    /\ last'.i = i
    /\ last'.res = "ok"

\* C8 : when retourner of a loan not yet returned, or a successful
\* ajouter_exemplaire, leaves the book with an available copy while its
\* queue holds a reservation en_attente, the earliest such reservation is
\* notifie at the end of that step.
C8_FileTraitee ==
    [][\A i \in Isbns :
         (/\ C8_Retour(i) \/ C8_Ajout(i)
          /\ i \in DOMAIN livres'
          /\ NbDisponibles(livres'[i]) >= 1
          /\ C8_RangsEnAttente(i) # {})
         => LET k == CHOOSE k \in C8_RangsEnAttente(i) :
                        \A j \in C8_RangsEnAttente(i) : k <= j
            IN reservations'[files[i][k]].statut = "notifie"]_vars

\* the only copy was lent once and has come back : the reservation made in
\* between is notified
C8_Temoin ==
    /\ last.op = "retourner"
    /\ Len(emprunts) = 1
    /\ EstRetourne(emprunts[1])
    /\ Len(livres["i1"].exemplaires) = 1
    /\ Len(reservations) >= 1
    /\ reservations[1].statut = "notifie"

---------------------------------------------------------------------------
(* C9 *)

\* the member m passes the checks emprunter makes before looking at the
\* copies : registered, not suspended, active and under the limit
C9_MembreAdmis(m) ==
    /\ m \in DOMAIN utilisateurs
    /\ ~(m \in DOMAIN suspensions /\ now < suspensions[m])
    /\ utilisateurs[m].statut = "actif"
    /\ Len(utilisateurs[m].livres_empruntes)
         < LimiteCategorie(utilisateurs[m].type)

\* a successful borrow of the only available copy leaves the status
\* "emprunte"
C9_DernierExemplaire ==
    \A i \in DOMAIN livres :
        (/\ AppelDe("emprunter")
         /\ last'.i = i
         /\ last'.res = "ok"
         /\ NbDisponibles(livres[i]) = 1)
        => /\ livres'[i].statut = "emprunte"
           /\ NbDisponibles(livres'[i]) = 0

\* a book stays without available copy until retourner or
\* ajouter_exemplaire
C9_Jusqua ==
    \A i \in DOMAIN livres :
        (/\ NbDisponibles(livres[i]) = 0
         /\ i \in DOMAIN livres'
         /\ NbDisponibles(livres'[i]) > 0)
        => AppelDe("retourner") \/ AppelDe("ajouter_exemplaire")

\* C9, amended : a successful borrow of the only available copy leaves
\* the book "emprunte"; the book then has no available copy until a
\* retourner or an ajouter_exemplaire, and meanwhile every borrow of it
\* fails and creates no loan, with ExemplaireIndisponible when the member
\* is registered, not suspended, active and under the loan limit.
C9_PlusDisponible ==
    [][/\ C9_DernierExemplaire
       /\ C9_Jusqua
       /\ \A i \in DOMAIN livres :
            (/\ AppelDe("emprunter")
             /\ last'.i = i
             /\ NbDisponibles(livres[i]) = 0)
            => /\ last'.res # "ok"
               /\ emprunts' = emprunts
               /\ C9_MembreAdmis(last'.m)
                    => last'.res = "ExemplaireIndisponible"]_vars

\* C9 : a successful borrow of the only available copy leaves the book
\* "emprunte", and from then until a retourner or an ajouter_exemplaire
\* every borrow of the book by any member fails with
\* ExemplaireIndisponible.
C9_CommeEcrit ==
    [][/\ C9_DernierExemplaire
       /\ C9_Jusqua
       /\ \A i \in DOMAIN livres :
            (/\ AppelDe("emprunter")
             /\ last'.i = i
             /\ NbDisponibles(livres[i]) = 0)
            => /\ last'.res = "ExemplaireIndisponible"
               /\ emprunts' = emprunts]_vars

\* the only copy is on loan and another member, admitted, has just been
\* refused it
C9_Temoin ==
    /\ last.op = "emprunter"
    /\ last.res = "ExemplaireIndisponible"
    /\ Len(livres["i1"].exemplaires) = 1
    /\ livres["i1"].statut = "emprunte"
    /\ Len(emprunts) = 1
    /\ ~EstRetourne(emprunts[1])
    /\ last.m # emprunts[1].matricule_user
    /\ C9_MembreAdmis(last.m)

---------------------------------------------------------------------------
(* C10 *)

\* C10 : the renewal counter of every loan stays in 0..2 and never goes
\* down; a renouveler that returns True raises it by one (so at most two
\* return True over the life of a loan); once it is 2, renouveler returns
\* False and leaves the loan, its due date and its counter unchanged.
C10_Renouvellements ==
    [][/\ Len(emprunts') >= Len(emprunts)
       /\ \A id \in 1..Len(emprunts) :
            /\ emprunts[id].renouvellements \in 0..2
            /\ emprunts'[id].renouvellements \in 0..2
            /\ emprunts'[id].renouvellements >= emprunts[id].renouvellements
            /\ (AppelDe("renouveler") /\ last'.id = id /\ last'.res = "True")
               => emprunts'[id].renouvellements
                    = emprunts[id].renouvellements + 1
            /\ emprunts'[id].renouvellements # emprunts[id].renouvellements
               => AppelDe("renouveler") /\ last'.id = id
                  /\ last'.res = "True"
            /\ (/\ AppelDe("renouveler")
                /\ last'.id = id
                /\ emprunts[id].renouvellements = 2)
               => /\ last'.res = "False"
                  /\ emprunts'[id] = emprunts[id]]_vars

\* a loan renewed twice, neither returned nor overdue, has just been
\* refused a third renewal
C10_Temoin ==
    /\ last.op = "renouveler"
    /\ last.res = "False"
    /\ last.id \in 1..Len(emprunts)
    /\ emprunts[last.id].renouvellements = 2
    /\ ~EstRetourne(emprunts[last.id])
    /\ now <= emprunts[last.id].date_echeance

---------------------------------------------------------------------------
(* C11 *)

\* the step is a call renouveler(id, .) whose outcome is res
C11_Appel(id, res) ==
    /\ AppelDe("renouveler")
    /\ last'.id = id
    /\ last'.res = res

\* C11 : renouveler(id, jours) returns True only if the loan is not yet
\* returned, now is not after its due date and its counter is below 2; a
\* call that returns True adds exactly jours days to the due date and one
\* to the counter and changes nothing else of the loan; on a loan already
\* returned or overdue it returns False and changes no loan, copy, member,
\* suspension or reservation; an unknown id fails with EmpruntNonTrouve.
C11_Renouveler ==
    [][/\ \A id \in 1..Len(emprunts) :
            /\ C11_Appel(id, "True")
               => /\ ~EstRetourne(emprunts[id])
                  /\ now <= emprunts[id].date_echeance
                  /\ emprunts[id].renouvellements < 2
            /\ \A j \in JoursProlongation :
                 (Renouveler(id, j) /\ last'.res = "True")
                 => emprunts' =
                      [emprunts EXCEPT
                         ![id].date_echeance = @ + j * TicksParJour,
                         ![id].renouvellements = @ + 1]
            /\ (/\ AppelDe("renouveler")
                /\ last'.id = id
                /\ \/ EstRetourne(emprunts[id])
                   \/ now > emprunts[id].date_echeance)
               => /\ last'.res = "False"
                  /\ UNCHANGED <<livres, utilisateurs, emprunts,
                                 suspensions, reservations, files>>
       /\ (AppelDe("renouveler") /\ last'.id \notin 1..Len(emprunts))
          => /\ last'.res = "EmpruntNonTrouve"
             /\ UNCHANGED <<livres, utilisateurs, emprunts, suspensions,
                            reservations, files>>
       /\ AppelDe("renouveler")
          => last'.res \in {"True", "False", "EmpruntNonTrouve"}]_vars

\* a loan of one day, prolonged by three days and then by one, is due five
\* days after the borrow
C11_Temoin ==
    /\ last.op = "renouveler"
    /\ last.res = "True"
    /\ Len(emprunts) = 1
    /\ emprunts[1].renouvellements = 2
    /\ emprunts[1].date_echeance
         = emprunts[1].date_emprunt + 5 * TicksParJour

\* a renewal has just been refused because the loan is overdue
C11_TemoinRetard ==
    /\ last.op = "renouveler"
    /\ last.res = "False"
    /\ last.id \in 1..Len(emprunts)
    /\ ~EstRetourne(emprunts[last.id])
    /\ emprunts[last.id].renouvellements < 2
    /\ now > emprunts[last.id].date_echeance

---------------------------------------------------------------------------
(* C12 *)

\* the step is a call reserver(m, i) on a book that has an available copy
C12_ReserverDisponible ==
    /\ AppelDe("reserver")
    /\ last'.i \in DOMAIN livres
    /\ NbDisponibles(livres[last'.i]) >= 1

\* the step creates a reservation
C12_Creation == Len(reservations') > Len(reservations)

\* C12 as written : reserver on a book that has an available copy fails
\* with LivreDejaDisponible, whoever asks.
C12_CommeEcrit ==
    [][C12_ReserverDisponible => last'.res = "LivreDejaDisponible"]_vars

\* C12 : reserver on a book that has an available copy creates no
\* reservation and no queue entry; it fails with LivreDejaDisponible when
\* the matricule is registered and with UtilisateurIntrouvable when it is
\* not; every reservation is created by a reserver made while its book
\* had no available copy.
C12_LivreDejaDisponible ==
    [][/\ C12_ReserverDisponible
          => /\ last'.res = IF last'.m \in DOMAIN utilisateurs
                            THEN "LivreDejaDisponible"
                            ELSE "UtilisateurIntrouvable"
             /\ UNCHANGED <<reservations, files>>
       /\ C12_Creation
          => /\ AppelDe("reserver")
             /\ last'.res = "ok"
             /\ Len(reservations') = Len(reservations) + 1
             /\ reservations'[Len(reservations')].isbn = last'.i
             /\ last'.i \in DOMAIN livres
             /\ NbDisponibles(livres[last'.i]) = 0]_vars

\* a registered member has just been refused a reservation on a book one
\* of whose copies is available
C12_Temoin ==
    /\ last.op = "reserver"
    /\ last.res = "LivreDejaDisponible"
    /\ last.m \in DOMAIN utilisateurs
    /\ last.i \in DOMAIN livres
    /\ NbDisponibles(livres[last.i]) >= 1

\* a reservation has just been created on a book all of whose copies are out
C12_TemoinCreation ==
    /\ last.op = "reserver"
    /\ last.res = "ok"
    /\ last.i \in DOMAIN livres
    /\ Len(livres[last.i].exemplaires) >= 1
    /\ NbDisponibles(livres[last.i]) = 0
    /\ reservations[last.id].statut = "en_attente"

---------------------------------------------------------------------------
(* C13 *)

\* the reservations of member m for book i that are en_attente or notifie
C13_EnCours(rs, m, i) ==
    {rid \in 1..Len(rs) : /\ rs[rid].matricule_user = m
                          /\ rs[rid].isbn = i
                          /\ rs[rid].statut \in {"en_attente", "notifie"}}

\* at most one reservation en_attente or notifie for each member and book
C13_AuPlusUne(rs) ==
    \A m \in Matricules, i \in Isbns : Cardinality(C13_EnCours(rs, m, i)) <= 1

\* the checks reserver makes before the one on double reservation pass
C13_Recevable ==
    /\ last'.m \in DOMAIN utilisateurs
    /\ last'.i \in DOMAIN livres
    /\ NbDisponibles(livres[last'.i]) = 0

\* C13 : in every state each member has at most one reservation
\* en_attente or notifie for each book; a reserver by a member who has one
\* creates no reservation and changes no reservation and no queue, and
\* fails with DejaReserve when the other checks pass; a reserver that
\* passes these checks by a member whose earlier reservations for the book
\* are all confirme or annule succeeds and creates a reservation.
C13_UneSeuleReservation ==
    [][/\ C13_AuPlusUne(reservations)
       /\ C13_AuPlusUne(reservations')
       /\ (AppelDe("reserver")
           /\ C13_EnCours(reservations, last'.m, last'.i) # {})
          => /\ UNCHANGED <<reservations, files, livres, utilisateurs,
                            emprunts, suspensions>>
             /\ C13_Recevable => last'.res = "DejaReserve"
       /\ (AppelDe("reserver")
           /\ C13_Recevable
           /\ C13_EnCours(reservations, last'.m, last'.i) = {})
          => /\ last'.res = "ok"
             /\ reservations' =
                  Append(reservations,
                         [matricule_user |-> last'.m, isbn |-> last'.i,
                          date_reservation |-> now,
                          statut |-> "en_attente"])]_vars

\* a member has just been refused a second reservation for a book
C13_Temoin ==
    /\ last.op = "reserver"
    /\ last.res = "DejaReserve"
    /\ C13_EnCours(reservations, last.m, last.i) # {}

\* a member whose first reservation for the book was cancelled and whose
\* second was confirmed holds a third one
C13_TemoinNouvelle ==
    /\ last.op = "reserver"
    /\ last.res = "ok"
    /\ Len(reservations) = 3
    /\ \A rid \in 1..3 : /\ reservations[rid].matricule_user = last.m
                         /\ reservations[rid].isbn = last.i
    /\ {reservations[1].statut, reservations[2].statut}
         = {"annule", "confirme"}
    /\ reservations[3].statut = "en_attente"

---------------------------------------------------------------------------
(* C14 *)

\* member m has an unexpired suspension entry
C14_Suspendu(m) == m \in DOMAIN suspensions /\ now < suspensions[m]

\* member m is active and under the loan limit of their category
C14_PeutEmprunter(m) ==
    /\ utilisateurs[m].statut = "actif"
    /\ Len(utilisateurs[m].livres_empruntes)
         < LimiteCategorie(utilisateurs[m].type)

\* book i has an available copy, the one of barcode cb when cb is given
C14_ExemplaireDisponible(i, cb) ==
    \E k \in 1..Len(livres[i].exemplaires) :
        /\ livres[i].exemplaires[k].statut = "disponible"
        /\ cb # SansCode => livres[i].exemplaires[k].code_barre = cb

\* the first precondition of emprunter(m, i, cb) that is violated
C14_PremierRefus(m, i, cb) ==
    CASE m \notin DOMAIN utilisateurs -> "UtilisateurIntrouvable"
      [] m \in DOMAIN utilisateurs /\ C14_Suspendu(m) -> "UtilisateurSuspendu"
      [] OTHER ->
         IF ~C14_PeutEmprunter(m) THEN "LimiteAtteinte"
         ELSE IF i \notin DOMAIN livres THEN "LivreIntrouvable"
         ELSE IF ~C14_ExemplaireDisponible(i, cb)
         THEN "ExemplaireIndisponible"
         ELSE "ok"

\* C14 : emprunter reports the first violated precondition in the order
\* member registered, member not suspended, member allowed to borrow, book
\* known, copy available, and succeeds when none is violated.
C14_OrdreDesVerifications ==
    [][AppelDe("emprunter")
       => last'.res = C14_PremierRefus(last'.m, last'.i, last'.cb)]_vars

\* a suspended member who holds three loans, the limit of a student, has
\* been refused a book that is no longer in the catalogue : the refusal is
\* the suspension
C14_Temoin ==
    /\ last.op = "emprunter"
    /\ last.res = "UtilisateurSuspendu"
    /\ last.m \in DOMAIN utilisateurs
    /\ utilisateurs[last.m].type = "ETUDIANT"
    /\ Len(utilisateurs[last.m].livres_empruntes) = 3
    /\ last.i \notin DOMAIN livres

\* a member at the limit has been refused a book that is no longer in the
\* catalogue : the refusal is the limit
C14_TemoinLimite ==
    /\ last.op = "emprunter"
    /\ last.res = "LimiteAtteinte"
    /\ utilisateurs[last.m].statut = "actif"
    /\ Len(utilisateurs[last.m].livres_empruntes) = 3
    /\ last.i \notin DOMAIN livres

\* an unregistered matricule has been refused a book that is no longer in
\* the catalogue
C14_TemoinInconnu ==
    /\ last.op = "emprunter"
    /\ last.res = "UtilisateurIntrouvable"
    /\ last.i \notin DOMAIN livres

\* a refusal that comes from the book : unknown book or no available copy
C14_TemoinLivre ==
    /\ last.op = "emprunter"
    /\ last.res \in {"LivreIntrouvable", "ExemplaireIndisponible"}

---------------------------------------------------------------------------
(* C15 *)

\* the step is a call of operation op refused with one of the errors errs
C15_Refus(op, errs) == AppelDe(op) /\ last'.res \in errs

\* the step is one of the refused calls the claim lists
C15_Echec ==
    \/ C15_Refus("emprunter",
                 {"UtilisateurIntrouvable", "UtilisateurSuspendu",
                  "LimiteAtteinte", "LivreIntrouvable",
                  "ExemplaireIndisponible"})
    \/ C15_Refus("reserver",
                 {"UtilisateurIntrouvable", "LivreIntrouvable",
                  "LivreDejaDisponible", "DejaReserve"})
    \/ C15_Refus("ajouter_livre", {"IsbnExistant"})
    \/ C15_Refus("ajouter_exemplaire",
                 {"LivreIntrouvable", "CodeBarreExistant"})
    \/ C15_Refus("retourner", {"EmpruntNonTrouve"})
    \/ C15_Refus("renouveler", {"EmpruntNonTrouve"})

\* the step removes nothing from the suspension table but entries whose
\* expiry has passed, and changes no other entry
C15_SeulesExpireesRetirees ==
    /\ DOMAIN suspensions' \subseteq DOMAIN suspensions
    /\ \A m \in DOMAIN suspensions' : suspensions'[m] = suspensions[m]
    /\ \A m \in DOMAIN suspensions \ DOMAIN suspensions' :
         suspensions[m] <= now

\* C15 : a refused emprunter, reserver, ajouter_livre, ajouter_exemplaire,
\* retourner or renouveler leaves the loans, the books with their copies,
\* statuses and counters, the members with their loan lists, the
\* reservations and the queues unchanged; of the suspension table it may
\* only remove entries that have expired.
C15_EchecSansEffet ==
    [][C15_Echec
       => /\ UNCHANGED <<emprunts, livres, utilisateurs, reservations,
                         files>>
          /\ C15_SeulesExpireesRetirees]_vars

\* a member under suspension has just been refused a loan, while the loan
\* table and the reservation table are not empty
C15_Temoin ==
    /\ last.op = "emprunter"
    /\ last.res = "UtilisateurSuspendu"
    /\ last.m \in DOMAIN suspensions
    /\ Len(emprunts) >= 1
    /\ Len(reservations) >= 1

\* each listed refusal of the other operations is reached
C15_TemoinReserver ==
    last.op = "reserver" /\ last.res = "DejaReserve"

C15_TemoinAjouterLivre ==
    last.op = "ajouter_livre" /\ last.res = "IsbnExistant"

C15_TemoinCodeBarre ==
    last.op = "ajouter_exemplaire" /\ last.res = "CodeBarreExistant"

C15_TemoinExemplaireSansLivre ==
    last.op = "ajouter_exemplaire" /\ last.res = "LivreIntrouvable"

C15_TemoinRetourner ==
    last.op = "retourner" /\ last.res = "EmpruntNonTrouve"

C15_TemoinRenouveler ==
    last.op = "renouveler" /\ last.res = "EmpruntNonTrouve"

\* a stricter statement, which does not hold : a refused call leaves the
\* suspension table as it was
C15_SuspensionsIntactes ==
    [][C15_Echec => UNCHANGED suspensions]_vars

---------------------------------------------------------------------------
(* C16 *)

\* the step is a call retourner(id) on a loan that is already returned
C16_RetourRepete(id) ==
    /\ AppelDe("retourner")
    /\ last'.id = id
    /\ id \in 1..Len(emprunts)
    /\ emprunts[id].date_retour # <<>>

\* C16 : retourner on a loan that already has a return date returns the
\* loan and changes nothing : the loans with their return dates, the
\* copies and the book status, the members with their loan lists and
\* histories, the suspension table, the reservations and the queues stay
\* as they were.
C16_RetourIdempotent ==
    [][\A id \in 1..Len(emprunts) :
         C16_RetourRepete(id)
         => /\ last'.res = "ok"
            /\ UNCHANGED <<emprunts, livres, utilisateurs, suspensions,
                           reservations, files>>]_vars

\* retourner has just been called again, later, on a loan returned late,
\* while the copy is available and a reservation is still en_attente : a
\* second suspension would end later and a second processing of the queue
\* would notify that reservation
C16_Temoin ==
    /\ last.op = "retourner"
    /\ last.res = "ok"
    /\ last.id \in 1..Len(emprunts)
    /\ last.m = ""
    /\ emprunts[last.id].date_retour # <<>>
    /\ emprunts[last.id].date_retour[1] > emprunts[last.id].date_echeance
    /\ now > emprunts[last.id].date_retour[1]
    /\ emprunts[last.id].matricule_user \in DOMAIN suspensions
    /\ NbDisponibles(livres[emprunts[last.id].isbn]) >= 1
    /\ \E rid \in 1..Len(reservations) :
         /\ reservations[rid].isbn = emprunts[last.id].isbn
         /\ reservations[rid].statut = "en_attente"

---------------------------------------------------------------------------
(* C17 *)

\* the step is a call retourner(id) on a loan that is not yet returned
C17_Retour(id) ==
    /\ AppelDe("retourner")
    /\ last'.id = id
    /\ id \in 1..Len(emprunts)
    /\ emprunts[id].date_retour = <<>>

\* the copy of barcode cb is among the copies of book l
C17_ExemplairePresent(l, cb) ==
    \E k \in 1..Len(l.exemplaires) : l.exemplaires[k].code_barre = cb

\* the suspension rule of retourner for loan e returned at time t : a late
\* return sets the member's expiry to t + 3 * max(1, whole days late) days
C17_RegleSuspension(e, t) ==
    t > e.date_echeance
    => LET j == (t - e.date_echeance) \div TicksParJour
           n == IF j >= 1 THEN j ELSE 1
       IN /\ e.matricule_user \in DOMAIN suspensions'
          /\ suspensions'[e.matricule_user] = t + 3 * n * TicksParJour

\* C17 : retourner on a loan not yet returned never fails : it stamps the
\* return time, applies the suspension rule to the loan's matricule and
\* returns the loan, whether or not the book, the copy and the member are
\* still there ; a missing book stays missing, the copies of a book that
\* has lost the loan's copy stay as they were, a missing member stays
\* missing.
C17_RetourTolerant ==
    [][\A id \in 1..Len(emprunts) :
         C17_Retour(id)
         => LET e == emprunts[id] IN
            /\ last'.res = "ok"
            /\ emprunts' = [emprunts EXCEPT ![id].date_retour = <<now>>]
            /\ C17_RegleSuspension(e, now)
            /\ DOMAIN livres' = DOMAIN livres
            /\ DOMAIN utilisateurs' = DOMAIN utilisateurs
            /\ (/\ e.isbn \in DOMAIN livres
                /\ ~C17_ExemplairePresent(livres[e.isbn], e.code_barre))
               => livres'[e.isbn].exemplaires = livres[e.isbn].exemplaires
            /\ (/\ e.isbn \in DOMAIN livres
                /\ C17_ExemplairePresent(livres[e.isbn], e.code_barre))
               => \E k \in 1..Len(livres'[e.isbn].exemplaires) :
                     /\ livres'[e.isbn].exemplaires[k].code_barre
                          = e.code_barre
                     /\ livres'[e.isbn].exemplaires[k].statut = "disponible"
            /\ e.matricule_user \in DOMAIN utilisateurs
               => \A k \in 1..Len(utilisateurs'[e.matricule_user]
                                    .livres_empruntes) :
                     utilisateurs'[e.matricule_user].livres_empruntes[k]
                       # [isbn |-> e.isbn, id_exemplaire |-> e.code_barre]]_vars

\* a loan whose book and member have both been removed has just been
\* returned late : the return is stamped and the matricule is suspended
C17_Temoin ==
    /\ last.op = "retourner"
    /\ last.res = "ok"
    /\ last.m # ""
    /\ last.m \notin DOMAIN utilisateurs
    /\ last.i \notin DOMAIN livres
    /\ emprunts[last.id].date_retour = <<now>>
    /\ now > emprunts[last.id].date_echeance
    /\ last.m \in DOMAIN suspensions

\* a loan whose copy has been removed from its book has just been returned
C17_TemoinExemplaire ==
    /\ last.op = "retourner"
    /\ last.res = "ok"
    /\ last.m # ""
    /\ last.i \in DOMAIN livres
    /\ ~C17_ExemplairePresent(livres[last.i], last.cb)
    /\ emprunts[last.id].date_retour = <<now>>

---------------------------------------------------------------------------
(* C18 *)

\* the step is a call retourner(id) on a loan not yet returned, made at a
\* time that is not after the loan's due date
C18_RetourATemps(id) ==
    /\ AppelDe("retourner")
    /\ last'.id = id
    /\ id \in 1..Len(emprunts)
    /\ emprunts[id].date_retour = <<>>
    /\ now <= emprunts[id].date_echeance

\* after the step loan id is retourne, its copy is disponible and its book
\* is disponible
C18_Rendu(id) ==
    LET e == emprunts[id] IN
    /\ StatutEmprunt(emprunts'[id], now') = "retourne"
    /\ e.isbn \in DOMAIN livres'
    /\ \E k \in 1..Len(livres'[e.isbn].exemplaires) :
          /\ livres'[e.isbn].exemplaires[k].code_barre = e.code_barre
          /\ livres'[e.isbn].exemplaires[k].statut = "disponible"
    /\ livres'[e.isbn].statut = "disponible"

\* C18 as written : an on-time return leaves the suspension table
\* unchanged.
C18_CommeEcrit ==
    [][\A id \in 1..Len(emprunts) :
         C18_RetourATemps(id)
         => C18_Rendu(id) /\ UNCHANGED suspensions]_vars

\* C18 : retourner of a loan at a time not after its due date sets the
\* loan's status to retourne, its copy to disponible and the book's status
\* to disponible ; it adds no suspension entry and changes none, and
\* removes only entries whose expiry has passed : a member with no entry
\* before the return has none after it.
C18_RetourSansSuspension ==
    [][\A id \in 1..Len(emprunts) :
         C18_RetourATemps(id)
         => /\ C18_Rendu(id)
            /\ DOMAIN suspensions' \subseteq DOMAIN suspensions
            /\ \A m \in DOMAIN suspensions' :
                 suspensions'[m] = suspensions[m]
            /\ \A m \in DOMAIN suspensions \ DOMAIN suspensions' :
                 suspensions[m] <= now]_vars

\* a loan has just been returned on time while the other member, who
\* returned late before, is still under suspension
C18_Temoin ==
    /\ last.op = "retourner"
    /\ last.res = "ok"
    /\ last.m # ""
    /\ emprunts[last.id].date_retour = <<now>>
    /\ now <= emprunts[last.id].date_echeance
    /\ last.m \notin DOMAIN suspensions
    /\ \E m \in DOMAIN suspensions : m # last.m /\ suspensions[m] > now
    /\ livres[last.i].statut = "disponible"

---------------------------------------------------------------------------
(* C19 *)

\* the whole days elapsed since the due date of loan e
C19_JoursRetard(e) == (now - e.date_echeance) \div TicksParJour

\* the loans of member m that are not returned and past due
C19_EnRetard(m) ==
    {id \in 1..Len(emprunts) : /\ emprunts[id].matricule_user = m
                               /\ emprunts[id].date_retour = <<>>
                               /\ emprunts[id].date_echeance < now}

\* those of them that are at least one whole day past due
C19_Penalises(m) ==
    {id \in C19_EnRetard(m) : C19_JoursRetard(emprunts[id]) >= 1}

\* the last created of a non-empty set of loans
C19_Dernier(ids) == CHOOSE id \in ids : \A x \in ids : x <= id

C19_TemoinMoinsDunJour ==
    /\ last.op = "appliquer_penalites"
    /\ C19_EnRetard("U1") # {}
    /\ C19_Penalises("U1") = {}
    /\ "U1" \in DOMAIN suspensions
    /\ suspensions["U1"] > now

---------------------------------------------------------------------------
(* C20 *)

\* the step is a call traiter_file(i) on a book that is not in the
\* catalogue or has no available copy
C20_SansExemplaire ==
    /\ AppelDe("traiter_file")
    /\ \/ last'.i \notin DOMAIN livres
       \/ NbDisponibles(livres[last'.i]) = 0

\* C20 : traiter_file on a book that does not exist or has no available
\* copy notifies nobody and changes nothing : every reservation keeps its
\* status and the queue keeps the same ids in the same order, those of
\* reservations that are no longer en_attente included.
C20_TraiterFileSansEffet ==
    [][C20_SansExemplaire
       => /\ last'.id = 0
          /\ UNCHANGED <<reservations, files, livres, utilisateurs,
                         emprunts, suspensions>>]_vars

\* traiter_file has just been called for a book removed from the
\* catalogue whose queue holds a reservation en_attente
C20_Temoin ==
    /\ last.op = "traiter_file"
    /\ last.id = 0
    /\ last.i \notin DOMAIN livres
    /\ files[last.i] # <<>>
    /\ reservations[files[last.i][1]].statut = "en_attente"

\* traiter_file has just been called for a book whose copies are all out
\* and whose queue still holds the id of a reservation that is notifie :
\* the id stays in the queue
C20_TemoinSansDisponible ==
    /\ last.op = "traiter_file"
    /\ last.id = 0
    /\ last.i \in DOMAIN livres
    /\ Len(livres[last.i].exemplaires) >= 1
    /\ NbDisponibles(livres[last.i]) = 0
    /\ files[last.i] # <<>>
    /\ reservations[files[last.i][1]].statut = "notifie"

---------------------------------------------------------------------------
(* C21 *)

\* the step is a call confirmer(rid) on an id that is not a reservation or
\* on a reservation that is en_attente, confirme or annule
C21_NonConfirmable ==
    /\ AppelDe("confirmer")
    /\ \/ last'.id \notin 1..Len(reservations)
       \/ reservations[last'.id].statut \in
            {"en_attente", "confirme", "annule"}

\* C21 : confirmer on an unknown id or on a reservation that is
\* en_attente, confirme or annule returns False and changes nothing : no
\* loan is created, no copy, member, suspension, reservation or queue
\* changes.
C21_ConfirmerRefuse ==
    [][C21_NonConfirmable
       => /\ last'.res = "False"
          /\ UNCHANGED <<emprunts, livres, utilisateurs, suspensions,
                         reservations, files>>]_vars

\* a reservation already confirme has just been confirmed a second time
\* while a copy of its book is available : there is still one loan
C21_Temoin ==
    /\ last.op = "confirmer"
    /\ last.res = "False"
    /\ last.id \in 1..Len(reservations)
    /\ reservations[last.id].statut = "confirme"
    /\ NbDisponibles(livres[reservations[last.id].isbn]) >= 1
    /\ Len(emprunts) = 1
    /\ utilisateurs[reservations[last.id].matricule_user].statut = "actif"

\* confirmer has just been refused on a reservation en_attente, on one
\* that is annule, on an unknown id
C21_TemoinEnAttente ==
    /\ last.op = "confirmer"
    /\ last.id \in 1..Len(reservations)
    /\ reservations[last.id].statut = "en_attente"

C21_TemoinAnnule ==
    /\ last.op = "confirmer"
    /\ last.id \in 1..Len(reservations)
    /\ reservations[last.id].statut = "annule"

C21_TemoinInconnu ==
    /\ last.op = "confirmer"
    /\ last.id = Len(reservations) + 1

---------------------------------------------------------------------------
(* C22 *)

\* the step is a call annuler(rid) on a reservation whose status is in sts
C22_Annuler(rid, sts) ==
    /\ AppelDe("annuler")
    /\ last'.id = rid
    /\ reservations[rid].statut \in sts

\* the queue q without the id rid, the other ids in the same order
C22_Sans(q, rid) == SelectSeq(q, LAMBDA x : x # rid)

\* C22 : annuler on a reservation en_attente or notifie returns True, sets
\* it to annule and takes its id out of the queue of its isbn, leaving the
\* other ids in order ; annuler on a reservation already annule returns
\* True and changes no reservation and no queue ; annuler on an unknown id
\* returns False and changes nothing ; no loan, copy, member or suspension
\* changes in any of these calls.
C22_AnnulerIdempotent ==
    [][/\ \A rid \in 1..Len(reservations) :
            /\ C22_Annuler(rid, {"en_attente", "notifie"})
               => /\ last'.res = "True"
                  /\ reservations' =
                       [reservations EXCEPT ![rid].statut = "annule"]
                  /\ files' =
                       [files EXCEPT ![reservations[rid].isbn] =
                          C22_Sans(@, rid)]
            /\ C22_Annuler(rid, {"annule"})
               => /\ last'.res = "True"
                  /\ UNCHANGED <<reservations, files>>
       /\ (AppelDe("annuler") /\ last'.id \notin 1..Len(reservations))
          => /\ last'.res = "False"
             /\ UNCHANGED <<reservations, files>>
       /\ AppelDe("annuler")
          => UNCHANGED <<emprunts, livres, utilisateurs, suspensions>>]_vars

\* the first of two queued reservations, which was notifie, has just been
\* cancelled : the queue holds the second one only
C22_Temoin ==
    /\ last.op = "annuler"
    /\ last.res = "True"
    /\ last.id = 1
    /\ Len(reservations) = 2
    /\ reservations[1].statut = "annule"
    /\ reservations[2].isbn = reservations[1].isbn
    /\ files[reservations[1].isbn] = <<2>>
    /\ NbDisponibles(livres[reservations[1].isbn]) >= 1

---------------------------------------------------------------------------
(* C23 *)

\* the step is a call emprunter(m, i, cb) whose member passes the checks
\* made before the copy is looked for, on a book of the catalogue
C23_Appel ==
    /\ AppelDe("emprunter")
    /\ last'.m \in DOMAIN utilisateurs
    /\ ~C14_Suspendu(last'.m)
    /\ C14_PeutEmprunter(last'.m)
    /\ last'.i \in DOMAIN livres

\* the ranks of the copies of exs that emprunter may take for cb : the
\* available copy of that barcode, or without a barcode the first
\* available copy of the list
C23_Rangs(exs, cb) ==
    IF cb # SansCode
    THEN {k \in 1..Len(exs) : /\ exs[k].code_barre = cb
                              /\ exs[k].statut = "disponible"}
    ELSE {k \in 1..Len(exs) :
            /\ exs[k].statut = "disponible"
            /\ \A j \in 1..(k - 1) : exs[j].statut # "disponible"}

\* C23 : with a barcode, emprunter lends the copy of the book that has
\* this barcode and only if it is disponible ; a copy of this barcode in
\* another status, or no copy of this barcode, gives ExemplaireIndisponible
\* even if other copies are disponible ; without a barcode it lends the
\* first copy of the book's list that is disponible, and gives
\* ExemplaireIndisponible if there is none.
C23_ChoixExemplaire ==
    [][C23_Appel
       => LET exs == livres[last'.i].exemplaires
              K == C23_Rangs(exs, last'.cb)
          IN IF K = {}
             THEN /\ last'.res = "ExemplaireIndisponible"
                  /\ UNCHANGED <<livres, emprunts>>
             ELSE /\ last'.res = "ok"
                  /\ Cardinality(K) = 1
                  /\ \A k \in K :
                       /\ Len(emprunts') = Len(emprunts) + 1
                       /\ emprunts'[Len(emprunts')].code_barre
                            = exs[k].code_barre
                       /\ emprunts'[Len(emprunts')].isbn = last'.i
                       /\ livres'[last'.i].exemplaires
                            = [exs EXCEPT ![k].statut = "emprunte"]]_vars

\* a copy asked for by its barcode has just been refused because it is
\* perdu, while another copy of the book is disponible
C23_Temoin ==
    /\ last.op = "emprunter"
    /\ last.res = "ExemplaireIndisponible"
    /\ last.cb # SansCode
    /\ \E k \in 1..Len(livres[last.i].exemplaires) :
          /\ livres[last.i].exemplaires[k].code_barre = last.cb
          /\ livres[last.i].exemplaires[k].statut = "perdu"
    /\ NbDisponibles(livres[last.i]) >= 1

\* a loan without barcode has just taken the second copy of the list, the
\* first one being already out
C23_TemoinPremierDisponible ==
    /\ last.op = "emprunter"
    /\ last.res = "ok"
    /\ last.cb = SansCode
    /\ Len(livres[last.i].exemplaires) >= 3
    /\ livres[last.i].exemplaires[1].statut = "emprunte"
    /\ livres[last.i].exemplaires[2].statut = "emprunte"
    /\ livres[last.i].exemplaires[3].statut = "disponible"
    /\ emprunts[Len(emprunts)].code_barre
         = livres[last.i].exemplaires[2].code_barre

\* a loan by barcode has just taken the third copy while the first two
\* are disponible
C23_TemoinParCode ==
    /\ last.op = "emprunter"
    /\ last.res = "ok"
    /\ last.cb = "00003"
    /\ emprunts[Len(emprunts)].code_barre = "00003"
    /\ NbDisponibles(livres[last.i]) = 2
    /\ livres[last.i].exemplaires[1].statut = "disponible"

\* a barcode that no copy of the book has was refused
C23_TemoinSansCorrespondance ==
    /\ last.op = "emprunter"
    /\ last.res = "ExemplaireIndisponible"
    /\ last.cb # SansCode
    /\ \A k \in 1..Len(livres[last.i].exemplaires) :
          livres[last.i].exemplaires[k].code_barre # last.cb
    /\ NbDisponibles(livres[last.i]) >= 1

---------------------------------------------------------------------------
(* C24 *)

\* the status of a returned loan : retourne if returned at or before the
\* due date, en_retard if returned after it
C24_StatutRendu(e) ==
    IF e.date_retour[1] <= e.date_echeance THEN "retourne" ELSE "en_retard"

\* C24 : no step takes a loan out of the loan table or turns it into
\* another loan ; once a loan has a return date, its return date, due
\* date and renewal counter never change, and its status stays retourne
\* if it was returned at or before the due date and en_retard otherwise,
\* whatever the operation and however late the clock.
C24_EmpruntsConserves ==
    [][/\ Len(emprunts') >= Len(emprunts)
       /\ \A id \in 1..Len(emprunts) :
            /\ emprunts'[id].matricule_user = emprunts[id].matricule_user
            /\ emprunts'[id].isbn = emprunts[id].isbn
            /\ emprunts'[id].code_barre = emprunts[id].code_barre
            /\ emprunts'[id].date_emprunt = emprunts[id].date_emprunt
            /\ emprunts[id].date_retour # <<>>
               => /\ emprunts'[id].date_retour = emprunts[id].date_retour
                  /\ emprunts'[id].date_echeance
                       = emprunts[id].date_echeance
                  /\ emprunts'[id].renouvellements
                       = emprunts[id].renouvellements
                  /\ StatutEmprunt(emprunts[id], now)
                       = C24_StatutRendu(emprunts[id])
                  /\ StatutEmprunt(emprunts'[id], now')
                       = C24_StatutRendu(emprunts[id])]_vars

\* renouveler has just been refused on a loan returned on time, at a time
\* that is after the loan's due date : the loan is still retourne
C24_Temoin ==
    /\ last.op = "renouveler"
    /\ last.res = "False"
    /\ last.id \in 1..Len(emprunts)
    /\ emprunts[last.id].date_retour # <<>>
    /\ emprunts[last.id].date_retour[1] <= emprunts[last.id].date_echeance
    /\ emprunts[last.id].renouvellements = 1
    /\ now > emprunts[last.id].date_echeance
    /\ StatutEmprunt(emprunts[last.id], now) = "retourne"

\* penalties have just been applied while the table holds a returned loan
\* and a loan still out and overdue
C24_TemoinPenalites ==
    /\ last.op = "appliquer_penalites"
    /\ Len(emprunts) = 2
    /\ emprunts[1].date_retour # <<>>
    /\ emprunts[2].date_retour = <<>>
    /\ now > emprunts[2].date_echeance

---------------------------------------------------------------------------
(* C25 *)

\* active, and strictly fewer current loans than the limit of the category
C25_PeutEmprunter(m) ==
    /\ utilisateurs[m].statut = "actif"
    /\ Len(utilisateurs[m].livres_empruntes)
           < LimiteCategorie(utilisateurs[m].type)

C25_TemoinLimite ==
    /\ last.op = "emprunter"
    /\ last.res = "LimiteAtteinte"
    /\ last.m \in DOMAIN utilisateurs
    /\ utilisateurs[last.m].statut = "actif"
    /\ Len(utilisateurs[last.m].livres_empruntes)
         = LimiteCategorie(utilisateurs[last.m].type)

\* a member was just activated and may borrow again
C25_TemoinActive ==
    /\ last.op = "definir_statut"
    /\ last.cb = "actif"
    /\ last.res = "True"
    /\ C25_PeutEmprunter(last.m)
    /\ Len(emprunts) >= 1

---------------------------------------------------------------------------
(* C26 *)

\* C26 : a suspension ends. Once the clock has reached the expiry of a
\* member's suspension, emprunter by that member is not refused with
\* UtilisateurSuspendu and the call leaves no entry for the member in the
\* table; before the expiry it is refused and the entry stays. The table
\* that lister_suspensions returns holds only entries that expire after
\* the instant of the call.
C26_SuspensionExpire ==
    [][ /\ ( /\ last'.op = "emprunter"
             /\ last'.m \in DOMAIN suspensions )
           => IF suspensions[last'.m] <= now
              THEN /\ last'.res # "UtilisateurSuspendu"
                   /\ last'.m \notin DOMAIN suspensions'
              ELSE /\ last'.res = "UtilisateurSuspendu"
                   /\ last'.m \in DOMAIN suspensions'
                   /\ suspensions'[last'.m] = suspensions[last'.m]
        /\ last'.op = "lister_suspensions"
           => /\ \A m \in DOMAIN suspensions' : suspensions'[m] > now
              /\ \A m \in DOMAIN suspensions :
                     suspensions[m] > now
                        => /\ m \in DOMAIN suspensions'
                           /\ suspensions'[m] = suspensions[m]
      ]_vars

\* a member whose suspension had expired at this very instant has just
\* borrowed, and the table no longer holds its entry
C26_Temoin ==
    /\ last.op = "emprunter"
    /\ last.res = "ok"
    /\ last.m \notin DOMAIN suspensions
    /\ \E id \in 1..Len(emprunts) :
          /\ emprunts[id].matricule_user = last.m
          /\ emprunts[id].date_retour # <<>>
          /\ emprunts[id].date_retour[1] > emprunts[id].date_echeance
          /\ emprunts[id].date_retour[1]
               + Jours(JoursRetardRetour(emprunts[id],
                                         emprunts[id].date_retour[1])
                       * FACTEUR_SUSPENSION) = now

\* lister_suspensions has just run after every suspension had expired
C26_TemoinListe ==
    /\ last.op = "lister_suspensions"
    /\ suspensions = <<>>
    /\ \E id \in 1..Len(emprunts) :
          /\ emprunts[id].date_retour # <<>>
          /\ emprunts[id].date_retour[1] > emprunts[id].date_echeance

\* a suspended member has just been refused
C26_TemoinSuspendu ==
    /\ last.op = "emprunter"
    /\ last.res = "UtilisateurSuspendu"
    /\ last.m \in DOMAIN suspensions
    /\ now < suspensions[last.m]

---------------------------------------------------------------------------
(* C27 *)

\* the (isbn, rank) positions of the copies of the catalogue lv
C27_Places(lv) ==
    UNION {{<<i, k>> : k \in 1..Len(lv[i].exemplaires)} : i \in DOMAIN lv}

\* no two copies of the catalogue lv, in one book or in two, have the same
\* barcode
C27_CodesDistincts(lv) ==
    \A p \in C27_Places(lv), q \in C27_Places(lv) :
        lv[p[1]].exemplaires[p[2]].code_barre
            = lv[q[1]].exemplaires[q[2]].code_barre
        => p = q

\* the barcode cb is carried by a copy of some book of the catalogue
C27_Present(cb) ==
    \E p \in C27_Places(livres) :
        livres[p[1]].exemplaires[p[2]].code_barre = cb

\* C27 : in every state reached by ajouter_livre, ajouter_exemplaire,
\* retirer_exemplaire and supprimer_livre no two copies of the catalogue,
\* of one book or of two, carry the same barcode; ajouter_exemplaire to an
\* existing book with a barcode that a copy of any book carries is refused
\* with CodeBarreExistant, and with such a barcode it adds nothing.
C27_CodeBarreUnique ==
    [][ /\ C27_CodesDistincts(livres)
        /\ C27_CodesDistincts(livres')
        /\ ( /\ last'.op = "ajouter_exemplaire"
             /\ C27_Present(last'.cb) )
           => /\ livres' = livres
              /\ LivreExiste(last'.i) => last'.res = "CodeBarreExistant"
      ]_vars

\* a copy was just refused for one book because a copy of another book
\* carries its barcode
C27_Temoin ==
    /\ last.op = "ajouter_exemplaire"
    /\ last.res = "CodeBarreExistant"
    /\ last.i \in DOMAIN livres
    /\ \A k \in 1..Len(livres[last.i].exemplaires) :
          livres[last.i].exemplaires[k].code_barre # last.cb
    /\ \E j \in DOMAIN livres \ {last.i} :
          \E k \in 1..Len(livres[j].exemplaires) :
              livres[j].exemplaires[k].code_barre = last.cb

\* a copy was just refused because a copy of the same book carries its
\* barcode
C27_TemoinMemeLivre ==
    /\ last.op = "ajouter_exemplaire"
    /\ last.res = "CodeBarreExistant"
    /\ last.i \in DOMAIN livres
    /\ \E k \in 1..Len(livres[last.i].exemplaires) :
          livres[last.i].exemplaires[k].code_barre = last.cb

\* two books hold the three copies that the barcodes allow
C27_TemoinPlein ==
    /\ DOMAIN livres = IsbnsCatalogue
    /\ \A i \in DOMAIN livres : Len(livres[i].exemplaires) >= 1
    /\ Cardinality(C27_Places(livres)) = 3

---------------------------------------------------------------------------
(* C28 *)

\* no two entries of the list lv have the same ISBN
C28_IsbnDistincts(lv) ==
    \A k \in 1..Len(lv), j \in 1..Len(lv) : lv[k].isbn = lv[j].isbn => k = j

\* C28 : in every reachable state no two books of the catalogue have the
\* same ISBN; ajouter_livre with an ISBN that a book of the catalogue has is
\* refused with IsbnExistant and leaves the catalogue as it was.
C28_IsbnUnique ==
    [][ /\ C28_IsbnDistincts(livres)
        /\ C28_IsbnDistincts(livres')
        /\ ( /\ last'.op = "ajouter_livre"
             /\ \E k \in 1..Len(livres) : livres[k].isbn = last'.i )
           => /\ last'.res = "IsbnExistant"
              /\ livres' = livres
      ]_vars

\* a book was just refused because its ISBN is in the catalogue, after
\* other books were added
C28_Temoin ==
    /\ last.op = "ajouter_livre"
    /\ last.res = "IsbnExistant"
    /\ Len(livres) >= 2
    /\ \E k \in 1..Len(livres) : livres[k].isbn = last.i

\* a book was removed and the same ISBN added again
C28_TemoinRajout ==
    /\ last.op = "ajouter_livre"
    /\ last.res = "ok"
    /\ last.i = "i1"
    /\ Len(livres) = 3
    /\ livres[3].isbn = "i1"

---------------------------------------------------------------------------
(* C29 *)

\* l'appel qui vient de finir est l'un de ceux de l'enonce et il a reussi
C29_Reussi(l) ==
    \/ l.op \in {"emprunter", "retourner", "reserver", "ajouter_livre",
                 "ajouter_exemplaire"} /\ l.res = "ok"
    \/ l.op \in {"renouveler", "confirmer", "annuler", "retirer_exemplaire",
                 "supprimer_livre"} /\ l.res = "True"
    \/ l.op = "traiter_file" /\ l.id # 0

\* relire les quatre fichiers d a l'instant t redonne les statuts des
\* exemplaires de lv, les listes d'emprunts des membres us, les emprunts
\* es, les suspensions sus, les reservations rs et les files f
C29_RelectureEgale(d, lv, us, es, sus, rs, f, t) ==
    /\ DOMAIN ChargeLivres(d.livres) = DOMAIN lv
    /\ \A i \in DOMAIN lv :
          ChargeLivres(d.livres)[i].exemplaires = lv[i].exemplaires
    /\ DOMAIN ChargeUtilisateurs(d.utilisateurs) = DOMAIN us
    /\ \A m \in DOMAIN us :
          ChargeUtilisateurs(d.utilisateurs)[m].livres_empruntes
            = us[m].livres_empruntes
    /\ ChargeEmprunts(d.emprunts) = es
    /\ ChargeSuspensions(d.emprunts, t) = sus
    /\ ChargeReservations(d.reservations) = rs
    /\ ChargeFiles(d.reservations) = f

\* C29, tel qu'il est ecrit : apres chaque appel reussi de emprunter,
\* retourner, renouveler, reserver, traiter_file qui notifie, confirmer,
\* annuler, ajouter_livre, ajouter_exemplaire, retirer_exemplaire et
\* supprimer_livre, relire les fichiers des livres, des membres, des
\* emprunts et des reservations redonne l'etat en memoire : memes statuts
\* d'exemplaires, memes listes d'emprunts des membres, memes emprunts,
\* suspensions, reservations et files
C29_EcritureImmediate ==
    [][C29_Reussi(last')
         => C29_RelectureEgale(disque', livres', utilisateurs', emprunts',
                               suspensions', reservations', files',
                               now')]_vars

---------------------------------------------------------------------------
(* C30 *)

\* les emprunts es2 ont les identifiants (les rangs) et, a l'instant t, les
\* statuts des emprunts es1
C30_EmpruntsEgaux(es1, es2, t) ==
    /\ Len(es2) = Len(es1)
    /\ \A k \in 1..Len(es1) :
          StatutEmprunt(es2[k], t) = StatutEmprunt(es1[k], t)

\* memes identifiants (rangs) et memes statuts des reservations
C30_ReservationsEgales(rs1, rs2) ==
    /\ Len(rs2) = Len(rs1)
    /\ \A k \in 1..Len(rs1) : rs2[k].statut = rs1[k].statut

\* memes ISBN, memes codes-barres dans le meme ordre, meme statut de livre
C30_LivresEgaux(lv1, lv2) ==
    /\ DOMAIN lv2 = DOMAIN lv1
    /\ \A i \in DOMAIN lv1 :
          /\ lv2[i].statut = lv1[i].statut
          /\ Len(lv2[i].exemplaires) = Len(lv1[i].exemplaires)
          /\ \A k \in 1..Len(lv1[i].exemplaires) :
                lv2[i].exemplaires[k].code_barre
                  = lv1[i].exemplaires[k].code_barre

\* memes identifiants des exemplaires
C30_IdsExemplairesEgaux(lv1, lv2) ==
    \A i \in DOMAIN lv1 \cap DOMAIN lv2 :
       \A k \in 1..Len(lv1[i].exemplaires) :
          k \in 1..Len(lv2[i].exemplaires)
            => lv2[i].exemplaires[k].id_exemplaire
                 = lv1[i].exemplaires[k].id_exemplaire

\* memes matricules, meme statut actif ou inactif, memes emprunts en cours
C30_MembresEgaux(us1, us2) ==
    /\ DOMAIN us2 = DOMAIN us1
    /\ \A m \in DOMAIN us1 :
          /\ us2[m].statut = us1[m].statut
          /\ us2[m].livres_empruntes = us1[m].livres_empruntes

\* C30, tel qu'il est ecrit : ecrire puis reconstruire chaque emprunt,
\* reservation, livre (avec ses exemplaires) et membre redonne les memes
\* champs d'identite (id d'emprunt, id de reservation, ISBN, codes-barres
\* et identifiants des exemplaires, matricule) et les memes statuts
\* derives (statut d'emprunt, de reservation, de livre, statut actif et
\* emprunts en cours du membre)
C30_AllerRetourFidele ==
    [][last'.op = "aller_retour"
         => /\ C30_EmpruntsEgaux(emprunts, emprunts', now')
            /\ C30_ReservationsEgales(reservations, reservations')
            /\ C30_LivresEgaux(livres, livres')
            /\ C30_IdsExemplairesEgaux(livres, livres')
            /\ C30_MembresEgaux(utilisateurs, utilisateurs')]_vars

\* la part de C30 sur le statut des emprunts, seule : elle est refutee
\* par un emprunt rendu une demi-seconde apres son echeance, ou en cours
\* a l'instant exact d'une echeance qui n'est pas une seconde entiere
C30_StatutEmpruntFidele ==
    [][last'.op = "aller_retour"
         => C30_EmpruntsEgaux(emprunts, emprunts', now')]_vars

\* le reste de C30 : les reservations, les livres hors identifiants des
\* exemplaires et les membres sont reconstruits a l'identique
C30_ResteFidele ==
    [][last'.op = "aller_retour"
         => /\ Len(emprunts') = Len(emprunts)
            /\ C30_ReservationsEgales(reservations, reservations')
            /\ C30_LivresEgaux(livres, livres')
            /\ C30_MembresEgaux(utilisateurs, utilisateurs')]_vars

---------------------------------------------------------------------------
(* C31 *)

\* the step is a call confirmer(rid) on a reservation that is notifie while
\* the reservation service has no loan service
C31_ConfirmerSansEmprunts ==
    /\ AppelDe("confirmer")
    /\ ~emprunt_cable
    /\ last'.id \in 1..Len(reservations)
    /\ reservations[last'.id].statut = "notifie"

\* C31 : without a loan service wired into the reservation service,
\* confirmer on a reservation that is notifie makes it confirme, removes
\* its id from the queue of its book and returns True ; no loan is
\* created, and no copy status and no member loan list changes (the
\* catalogue, the members and the loans are left as they were).
C31_ConfirmerDegrade ==
    [][C31_ConfirmerSansEmprunts
       => /\ last'.res = "True"
          /\ reservations'[last'.id].statut = "confirme"
          /\ \A k \in 1..Len(files'[reservations[last'.id].isbn]) :
                files'[reservations[last'.id].isbn][k] # last'.id
          /\ emprunts' = emprunts
          /\ \A i \in DOMAIN livres :
                /\ i \in DOMAIN livres'
                /\ livres'[i].exemplaires = livres[i].exemplaires
          /\ \A m \in DOMAIN utilisateurs :
                /\ m \in DOMAIN utilisateurs'
                /\ utilisateurs'[m].livres_empruntes
                     = utilisateurs[m].livres_empruntes]_vars

\* a reservation has just been confirmed without a loan service while a
\* copy of its book was available and its member could have borrowed it :
\* the copy is still available and the member holds no loan
C31_Temoin ==
    /\ last.op = "confirmer"
    /\ last.res = "True"
    /\ ~emprunt_cable
    /\ reservations[last.id].statut = "confirme"
    /\ NbDisponibles(livres[last.i]) >= 1
    /\ PeutEmprunter(utilisateurs[last.m])
    /\ utilisateurs[last.m].livres_empruntes = <<>>
    /\ files[last.i] = <<>>

\* the same for an inactive member, whom emprunter would have refused
C31_TemoinInactif ==
    /\ last.op = "confirmer"
    /\ last.res = "True"
    /\ ~emprunt_cable
    /\ utilisateurs[last.m].statut = "inactif"

---------------------------------------------------------------------------
(* C32 *)

\* the number of loans of the loan table made for the book i ; loans are
\* never deleted, and in SpecCompteur the book is in the catalogue from
\* the start, before any loan
C32_NbEmprunts(es, i) == Cardinality({k \in 1..Len(es) : es[k].isbn = i})

\* the step has created a loan of the book i (emprunter called directly or
\* by confirmer)
C32_EmpruntCree(i) ==
    /\ Len(emprunts') = Len(emprunts) + 1
    /\ emprunts'[Len(emprunts')].isbn = i

\* C32, as written : the borrow counter of a book never decreases, grows
\* by exactly 1 on each successful borrow of that book (direct or through
\* confirmer) and on no other operation, and equals the number of loans
\* created for its isbn since the book entered the catalogue.
C32_CompteurExact ==
    /\ [](\A i \in DOMAIN livres :
             livres[i].compteur = C32_NbEmprunts(emprunts, i))
    /\ [][\A i \in DOMAIN livres \cap DOMAIN livres' :
             /\ livres'[i].compteur >= livres[i].compteur
             /\ livres'[i].compteur =
                  livres[i].compteur + (IF C32_EmpruntCree(i) THEN 1 ELSE 0)
         ]_vars

\* between two starts of the program the counter does what C32 says :
\* every step but a restart leaves it alone or, when it creates a loan of
\* the book, adds 1
C32_CompteurEntreDeuxLancements ==
    [][last'.op # "recharger"
         => \A i \in DOMAIN livres \cap DOMAIN livres' :
               livres'[i].compteur =
                 livres[i].compteur + (IF C32_EmpruntCree(i) THEN 1 ELSE 0)
      ]_vars

---------------------------------------------------------------------------
(* C33 *)

\* the not-yet-returned loans of the loan table es that reference the
\* copy cb of the book i
C33_EmpruntsOuverts(es, i, cb) ==
    {id \in 1..Len(es) :
        /\ ~EstRetourne(es[id])
        /\ es[id].isbn = i
        /\ es[id].code_barre = cb}

\* C33, as written : in every state reachable by addCopy, removeCopy,
\* borrow, confirm and return_, each copy is referenced (isbn + barcode)
\* by at most one not-yet-returned loan, and a copy of the catalogue has
\* status OnLoan iff exactly one not-yet-returned loan references it ; in
\* particular return_ never flips to Available a copy that another active
\* loan holds.
C33_ReferenceUnique ==
    /\ [](/\ \A i \in Isbns, cb \in Codes :
                Cardinality(C33_EmpruntsOuverts(emprunts, i, cb)) <= 1
          /\ \A i \in DOMAIN livres :
                \A k \in 1..Len(livres[i].exemplaires) :
                   LET ex == livres[i].exemplaires[k]
                   IN ex.statut = "emprunte"
                      <=> Cardinality(C33_EmpruntsOuverts(
                                         emprunts, i, ex.code_barre)) = 1)
    /\ [][(AppelDe("retourner") /\ last'.res = "ok"
           /\ last'.i \in DOMAIN livres')
          => \A k \in 1..Len(livres'[last'.i].exemplaires) :
                LET ex == livres'[last'.i].exemplaires[k]
                IN (ex.code_barre = last'.cb /\ ex.statut = "disponible")
                   => C33_EmpruntsOuverts(emprunts', last'.i, last'.cb) = {}
         ]_vars

---------------------------------------------------------------------------
(* C34 *)

\* the number of not-yet-returned loans of the loan table es made by the
\* member m
C34_NbEmpruntsOuverts(es, m) ==
    Cardinality({id \in 1..Len(es) :
                    ~EstRetourne(es[id]) /\ es[id].matricule_user = m})

\* the step is a return_ that closes an open loan of a present member
C34_RetourEffectif ==
    /\ AppelDe("retourner")
    /\ last'.id \in 1..Len(emprunts)
    /\ ~EstRetourne(emprunts[last'.id])
    /\ EstRetourne(emprunts'[last'.id])
    /\ last'.m \in DOMAIN utilisateurs

\* C34, as written : for every member present, in every reachable state,
\* the length of the member's current-loan list equals the number of
\* not-yet-returned loans of the loan table for that matricule, so the
\* number of loans the member holds never exceeds the category limit ;
\* return_ of one loan removes exactly one entry from the member's list.
C34_ListeFidele ==
    /\ [](\A m \in DOMAIN utilisateurs :
             /\ Len(utilisateurs[m].livres_empruntes)
                  = C34_NbEmpruntsOuverts(emprunts, m)
             /\ C34_NbEmpruntsOuverts(emprunts, m)
                  <= LimiteCategorie(utilisateurs[m].type))
    /\ [][C34_RetourEffectif
          => Len(utilisateurs'[last'.m].livres_empruntes)
               = Len(utilisateurs[last'.m].livres_empruntes) - 1
         ]_vars

---------------------------------------------------------------------------
(* C35 *)

\* the Notified reservations of the book i in the reservation table rs
C35_Notifiees(rs, i) ==
    {rid \in 1..Len(rs) : rs[rid].isbn = i /\ rs[rid].statut = "notifie"}

\* the member m has a Notified reservation for the book i
C35_MembreNotifie(m, i) ==
    \E rid \in C35_Notifiees(reservations, i) :
       reservations[rid].matricule_user = m

\* the step is confirm on a Notified reservation whose member exists, is
\* active, is not suspended and is below the loan limit
C35_ConfirmationDue ==
    /\ AppelDe("confirmer")
    /\ last'.id \in 1..Len(reservations)
    /\ reservations[last'.id].statut = "notifie"
    /\ LET m == reservations[last'.id].matricule_user
       IN /\ m \in DOMAIN utilisateurs
          /\ utilisateurs[m].statut = "actif"
          /\ ~IsSuspended(m)
          /\ Len(utilisateurs[m].livres_empruntes)
               < LimiteCategorie(utilisateurs[m].type)

\* C35, as written : if a reservation is Notified and its member exists,
\* is active, is not suspended and is below the loan limit, then confirm
\* on that reservation succeeds : once a reservation has been notified, no
\* borrow by a different member (one without a Notified reservation for
\* that book) can take the copy it was notified for, and the number of
\* Notified reservations of a book never exceeds its number of Available
\* copies.
C35_NotificationGarantie ==
    /\ [][C35_ConfirmationDue => last'.res = "True"]_vars
    /\ [][(AppelDe("emprunter") /\ last'.res = "ok"
           /\ last'.i \in DOMAIN livres'
           /\ ~C35_MembreNotifie(last'.m, last'.i))
          => Cardinality(C35_Notifiees(reservations', last'.i))
               <= NbDisponibles(livres'[last'.i])
         ]_vars
    /\ [](\A i \in DOMAIN livres :
             Cardinality(C35_Notifiees(reservations, i))
               <= NbDisponibles(livres[i]))

---------------------------------------------------------------------------
(* C36 *)

\* the book i has a reservation of status st in the reservation table
C36_AUneReservation(i, st) ==
    \E rid \in 1..Len(reservations) :
       reservations[rid].isbn = i /\ reservations[rid].statut = st

\* C36, as written : after every operation, if a book has at least one
\* Available copy and at least one Pending reservation, then some
\* reservation for that book is Notified : a Pending reservation is never
\* left waiting on a book that has a free copy nobody has been notified
\* about (including after the Notified head is cancelled, or after a
\* confirm fails).
C36_AttenteServie ==
    \A i \in DOMAIN livres :
       (NbDisponibles(livres[i]) >= 1 /\ C36_AUneReservation(i, "en_attente"))
       => C36_AUneReservation(i, "notifie")

---------------------------------------------------------------------------
(* C37 *)

\* the ids of the Pending reservations of the book i ; ids are creation
\* ranks, so the order of the ids is the creation order
C37_EnAttente(i) ==
    {rid \in 1..Len(reservations) :
        reservations[rid].isbn = i /\ reservations[rid].statut = "en_attente"}

\* the sequence s lists exactly the set S, smallest first
C37_ListeCroissante(s, S) ==
    /\ Len(s) = Cardinality(S)
    /\ \A k \in 1..Len(s) : s[k] \in S
    /\ \A j, k \in 1..Len(s) : j < k => s[j] < s[k]

\* C37 : in every reachable state the reservation queue table is
\* well-formed : each isbn's queue contains each reservation id at most
\* once, only ids of existing reservations for that same isbn, and never
\* the id of a Confirmed or Cancelled reservation ; every Pending
\* reservation's id is present in its isbn's queue, in creation order
\* relative to the other Pending ones, so listQueueFor(isbn) returns
\* exactly the Pending reservations of that isbn, oldest first.
C37_FileBienFormee ==
    \A i \in Isbns :
       LET q == files[i] IN
       /\ \A j, k \in 1..Len(q) : j # k => q[j] # q[k]
       /\ \A k \in 1..Len(q) :
             /\ q[k] \in 1..Len(reservations)
             /\ reservations[q[k]].isbn = i
             /\ reservations[q[k]].statut \notin {"confirme", "annule"}
       /\ \A rid \in C37_EnAttente(i) : \E k \in 1..Len(q) : q[k] = rid
       /\ \A j, k \in 1..Len(q) :
             (j < k /\ q[j] \in C37_EnAttente(i) /\ q[k] \in C37_EnAttente(i))
             => q[j] < q[k]
       /\ C37_ListeCroissante(ListerFilePourIsbn(i), C37_EnAttente(i))

\* witness : a reservation has just been cancelled while the queue of its
\* book holds a Notified reservation followed by a Pending one
C37_Temoin ==
    /\ last.op = "annuler" /\ last.res = "True"
    /\ \E i \in Isbns :
          /\ Len(files[i]) = 2
          /\ reservations[files[i][1]].statut = "notifie"
          /\ reservations[files[i][2]].statut = "en_attente"
          /\ reservations[last.id].isbn = i
          /\ reservations[last.id].statut = "annule"

\* witness : a confirmation has succeeded and left a Pending reservation
\* in the queue of the book
C37_TemoinConfirmation ==
    /\ last.op = "confirmer" /\ last.res = "True"
    /\ reservations[last.id].statut = "confirme"
    /\ C37_EnAttente(last.i) # {}
    /\ Len(files[last.i]) >= 1

\* witness : the program has been started again with two Pending
\* reservations waiting in a queue
C37_TemoinRelance ==
    /\ last.op = "recharger"
    /\ \E i \in Isbns : Cardinality(C37_EnAttente(i)) = 2

---------------------------------------------------------------------------
(* C38 *)

\* C38, as written : a member's suspension expiry is never moved earlier
\* by an operation : when return_ of an overdue loan or applyPenalties
\* writes a suspension for a member who already has an unexpired
\* suspension, the resulting expiry is at least the previous one (a short
\* new penalty does not shorten a longer running one, and with several
\* overdue loans of one member applyPenalties leaves the longest penalty).
C38_EcheanceJamaisAvancee ==
    [][\A m \in DOMAIN suspensions :
          suspensions[m] > now'
          => /\ m \in DOMAIN suspensions'
             /\ suspensions'[m] >= suspensions[m]
      ]_vars

---------------------------------------------------------------------------
(* C39 *)

\* the due date the claim gives a loan : borrow time + duration + d days
\* for each of its k renewals
C39_Echeance(e) ==
    e.date_emprunt + Jours(DureeEcheance)
      + e.renouvellements * Jours(JoursEcheance)

\* the step is a return_ that closes the open loan id
C39_Retour(id) ==
    /\ AppelDe("retourner")
    /\ last'.id = id
    /\ ~EstRetourne(emprunts[id])
    /\ EstRetourne(emprunts'[id])

\* the whole days of lateness charged by a return at t for the due date
\* due : at least one
C39_JoursFactures(t, due) ==
    IF (t - due) \div TicksParJour < 1 THEN 1 ELSE (t - due) \div TicksParJour

\* C39 : overdue-ness and the return penalty are always judged against
\* the loan's current (renewed) due date : a loan renewed k <= 2 times
\* with d days each has due = borrow time + duration + k x d, and a
\* return_ after the original due date but not after the renewed due date
\* gives status Returned and creates no suspension.
C39_EcheanceCourante ==
    /\ [](\A id \in 1..Len(emprunts) :
             /\ emprunts[id].renouvellements <= MAX_RENOUVELLEMENTS
             /\ emprunts[id].date_echeance = C39_Echeance(emprunts[id])
             /\ ~EstRetourne(emprunts[id])
                => (StatutEmprunt(emprunts[id], now) = "en_retard"
                    <=> now > C39_Echeance(emprunts[id])))
    /\ [][\A id \in 1..Len(emprunts) :
             C39_Retour(id)
             => LET e == emprunts[id]
                    m == e.matricule_user
                IN IF now <= C39_Echeance(e)
                   THEN /\ StatutEmprunt(emprunts'[id], now') = "retourne"
                        /\ \A x \in DOMAIN suspensions' :
                              /\ x \in DOMAIN suspensions
                              /\ suspensions'[x] = suspensions[x]
                   ELSE /\ StatutEmprunt(emprunts'[id], now') = "en_retard"
                        /\ m \in DOMAIN suspensions'
                        /\ suspensions'[m] =
                             now + Jours(FACTEUR_SUSPENSION
                                         * C39_JoursFactures(
                                              now, C39_Echeance(e)))
         ]_vars

\* witness : a loan renewed twice has been returned after its original
\* due date and not after its renewed one, and no suspension exists
C39_Temoin ==
    /\ last.op = "retourner" /\ last.res = "ok"
    /\ last.id \in 1..Len(emprunts)
    /\ LET e == emprunts[last.id]
       IN /\ e.renouvellements = 2
          /\ EstRetourne(e)
          /\ e.date_retour[1] = now
          /\ now > e.date_emprunt + Jours(DureeEcheance)
          /\ now <= e.date_echeance
          /\ StatutEmprunt(e, now) = "retourne"
    /\ DOMAIN suspensions = {}

\* witness : a renewed loan has been returned after its renewed due date
\* and its member is suspended
C39_TemoinRetard ==
    /\ last.op = "retourner" /\ last.res = "ok"
    /\ last.id \in 1..Len(emprunts)
    /\ LET e == emprunts[last.id]
       IN /\ e.renouvellements >= 1
          /\ EstRetourne(e)
          /\ e.date_retour[1] = now
          /\ now > e.date_echeance
          /\ e.matricule_user \in DOMAIN suspensions

=============================================================================
